---- MODULE Spec2Model ----
(***************************************************************************)
(* The service worker of Currency Converter Pro (src/sw.js) as a state     *)
(* machine: the cache store, the fetch-event tasks and the control flow    *)
(* started by message and sync events; and, of the page's script, the      *)
(* response cache of fetchWithCache and the list of recent conversions.    *)
(*                                                                         *)
(* Granularity: a handler is an async function; every await is one step.   *)
(* A step is the awaited platform operation taking effect (a cache read or *)
(* write, a network outcome) together with the handler's code up to the    *)
(* next await.  Steps of different tasks interleave freely.                *)
(*                                                                         *)
(* Time is counted in days; the clock starts more than one expiry window   *)
(* after the epoch (as any wall clock does).  A fetch event is handled by  *)
(* the free task of lowest index: which task handles it changes nothing.   *)
(*                                                                         *)
(* Specifications: Spec is the active worker on an empty store; SpecStored *)
(* the same worker on a filled store; SpecRace API handlers started        *)
(* together; SpecLifecycle the install and activate handlers of a new      *)
(* worker, SpecLifecycleFair the same with every promise settling;         *)
(* SpecUpgrade the life cycle followed by fetch events for the new worker; *)
(* SpecPage the page's fetchWithCache; SpecHistory its conversion history; *)
(* SpecTimeout the page's request for the rates passing through the        *)
(* worker, with the page's timeout.                                        *)
(***************************************************************************)
EXTENDS Integers, Sequences, FiniteSets, TLC

\* ------------------------------------------------------------ constants
CACHE_NAME == "currency-converter-pro-v3"
RUNTIME_CACHE == "currency-converter-runtime-v3"
API_CACHE_EXPIRY_DAYS == 1

\* Generations of an earlier version of the worker: any name that is neither
\* CACHE_NAME nor RUNTIME_CACHE.
OLD_CACHE == "currency-converter-pro-v2"
OLD_RUNTIME == "currency-converter-runtime-v2"

\* ---------------------------------------------------------------- bounds
MaxTicks == 2
NumTasks == 1
MaxEvents == 2

\* API_CACHE_EXPIRY_DAYS * 24 * 60 * 60 * 1000 milliseconds, in days.
expiryTime == API_CACHE_EXPIRY_DAYS
StartTime == expiryTime + 1
MaxTime == StartTime + MaxTicks
Tasks == 1..NumTasks

\* ------------------------------------------------------------------ URLs
SELF_ORIGIN == "https://app.example"
API_ORIGIN == "https://open.er-api.com"
FONTS_API_ORIGIN == "https://fonts.googleapis.com"
FONTS_STATIC_ORIGIN == "https://fonts.gstatic.com"
CDN_ORIGIN == "https://cdn.jsdelivr.net"
OTHER_ORIGIN == "https://other.example"

\* An absent query string or fragment; a present one embeds a URL
\* (as in ?u=https://host/path or #https://host/path).
NoPart == [origin |-> "", path |-> <<>>]
EmbeddedApi == [origin |-> API_ORIGIN, path |-> <<"v6", "latest", "USD">>]

Req(method, origin, path, search, hash, mode, dest) ==
    [method |-> method, origin |-> origin, path |-> path, search |-> search,
     hash |-> hash, mode |-> mode, destination |-> dest]

ReqApiUSD == Req("GET", API_ORIGIN, <<"v6", "latest", "USD">>, NoPart, NoPart, "cors", "")
ReqApiProxy == Req("GET", SELF_ORIGIN, <<"proxy">>, EmbeddedApi, NoPart, "cors", "")
ReqApiHash == Req("GET", OTHER_ORIGIN, <<"data.json">>, NoPart, EmbeddedApi, "cors", "")
ReqApiPost == Req("POST", API_ORIGIN, <<"v6", "latest", "USD">>, NoPart, NoPart, "cors", "")
ReqIcon == Req("GET", SELF_ORIGIN, <<"assets", "icon-192x192.png">>, NoPart, NoPart, "no-cors", "image")
ReqRootNav == Req("GET", SELF_ORIGIN, <<"">>, NoPart, NoPart, "navigate", "document")
ReqCdn == Req("GET", CDN_ORIGIN, <<"npm", "bootstrap.min.css">>, NoPart, NoPart, "no-cors", "style")
ReqOtherNav == Req("GET", OTHER_ORIGIN, <<"page">>, NoPart, NoPart, "navigate", "document")
ReqOther == Req("GET", OTHER_ORIGIN, <<"data.json">>, NoPart, NoPart, "cors", "")

Requests ==
    {ReqApiUSD, ReqApiProxy, ReqApiHash, ReqApiPost, ReqIcon, ReqRootNav, ReqCdn,
     ReqOtherNav, ReqOther}

\* The text origin + path matches https://open.er-api.com/v6/latest/.* from its
\* start: the host, the two path segments and the slash that follows them.
PatternAt(origin, path) ==
    /\ origin = API_ORIGIN
    /\ Len(path) >= 3
    /\ path[1] = "v6"
    /\ path[2] = "latest"

\* API_CACHE_PATTERNS.some(pattern => pattern.test(url.toString())): the pattern
\* is not anchored, so it matches wherever the text occurs in the whole URL.
ApiPatternTest(r) ==
    \/ PatternAt(r.origin, r.path)
    \/ PatternAt(r.search.origin, r.search.path)
    \/ PatternAt(r.hash.origin, r.hash.path)

StaticOriginTest(r) ==
    \/ r.origin = SELF_ORIGIN
    \/ r.origin = FONTS_API_ORIGIN
    \/ r.origin = FONTS_STATIC_ORIGIN
    \/ r.origin = CDN_ORIGIN

\* Mutant: the static-origin test made before the API pattern test.
ClassifyStaticFirst(r) ==
    IF r.method # "GET" THEN "none"
    ELSE IF StaticOriginTest(r) THEN "Static"
    ELSE IF ApiPatternTest(r) THEN "API"
    ELSE IF r.mode = "navigate" THEN "Navigation"
    ELSE "Other"

\* Mutant: the method test left out.
ClassifyAnyMethod(r) ==
    IF ApiPatternTest(r) THEN "API"
    ELSE IF StaticOriginTest(r) THEN "Static"
    ELSE IF r.mode = "navigate" THEN "Navigation"
    ELSE "Other"

\* The fetch listener's chain of tests, each ending in a return.
Classify(r) ==
    IF r.method # "GET" THEN "none"
    ELSE IF ApiPatternTest(r) THEN "API"
    ELSE IF StaticOriginTest(r) THEN "Static"
    ELSE IF r.mode = "navigate" THEN "Navigation"
    ELSE "Other"

\* `${url.origin}${url.pathname}${url.search}`: the URL without its fragment.
\* Cache matching by request ignores the fragment as well.
CacheKey(r) == [origin |-> r.origin, path |-> r.path, search |-> r.search]
SyncKey == [origin |-> API_ORIGIN, path |-> <<"v6", "latest", "USD">>, search |-> NoPart]
RootKey == [origin |-> SELF_ORIGIN, path |-> <<"">>, search |-> NoPart]

\* The install manifest.  coreFiles is the list of the source; of the local
\* assets and the CDN files one each is followed (an icon, fetched with the
\* default mode, and the bootstrap style sheet, fetched with mode no-cors).
LocalKey(name) == [origin |-> SELF_ORIGIN, path |-> <<name>>, search |-> NoPart]
coreFiles ==
    {RootKey, LocalKey("index.html"), LocalKey("style.css"),
     LocalKey("script.js"), LocalKey("manifest.json")}
ASSET_PATHS == {CacheKey(ReqIcon)}
cdnFiles == {CacheKey(ReqCdn)}
allOtherFiles == ASSET_PATHS \cup cdnFiles

Keys == {CacheKey(r) : r \in Requests} \cup {SyncKey, RootKey} \cup coreFiles

\* ------------------------------------------------- dates and responses
\* The value of the sw-cached-date header: absent, a text that is no date,
\* or the ISO-8601 text of an instant.
NoHeader == [kind |-> "null", t |-> 0]
BadDate == [kind |-> "text", t |-> 0]
toISOString(t) == [kind |-> "iso", t |-> t]

\* new Date(h).getTime(): null reads as the epoch, a text that is no date as
\* NaN, an ISO text as its instant.
NaN == [nan |-> TRUE, v |-> 0]
Num(n) == [nan |-> FALSE, v |-> n]
DateGetTime(h) ==
    IF h.kind = "null" THEN Num(0)
    ELSE IF h.kind = "iso" THEN Num(h.t)
    ELSE NaN
Minus(a, b) == IF a.nan \/ b.nan THEN NaN ELSE Num(a.v - b.v)
Greater(a, b) == ~a.nan /\ ~b.nan /\ a.v > b.v

\* A response: its status, its body and, of its headers, sw-cached-date,
\* Content-Type and Cache-Control ("" stands for what the server sent).
Response(status, body, date) ==
    [status |-> status, body |-> body, date |-> date,
     contentType |-> "", cacheControl |-> ""]
NoResponse == Response(0, "", NoHeader)

\* Mutant: every status from 200 on counts as OK.
OkNoUpperLimit(resp) == resp.status >= 200

\* response.ok: the status is in the range 200-299.
Ok(resp) == resp.status >= 200 /\ resp.status <= 299

\* The body is JSON.stringify({error: 'Offline', message: '...'}).
Offline503 ==
    [Response(503, "{\"error\":\"Offline\",\"message\":\"No internet connection and no cached data available\"}", NoHeader)
        EXCEPT !.contentType = "application/json", !.cacheControl = "no-cache"]
OfflineHtml ==
    [Response(200, "<html>You're Offline</html>", NoHeader)
        EXCEPT !.contentType = "text/html"]
Placeholder404 == Response(404, "", NoHeader)

\* The response of a cross-origin no-cors fetch: status 0, body unreadable.
Opaque == Response(0, "(opaque)", NoHeader)

\* What the network may answer: a response, or no response at all.
NetResponses ==
    {Response(200, "B1", NoHeader), Response(200, "B2", BadDate),
     Response(500, "ERR", NoHeader)}
NetError == Response(-1, "", NoHeader)
NetOutcomes == NetResponses \cup {NetError}
\* What fetch(request) may settle with in a handler: a no-cors request to
\* another origin gets an opaque response or none, any other request a
\* response the handler can read or none.
FetchOutcomes(r) ==
    IF r.mode = "no-cors" /\ r.origin # SELF_ORIGIN
    THEN {Opaque, NetError}
    ELSE NetOutcomes
AllOutcomes == NetOutcomes \cup {Opaque}
NetClass(o) == IF o = NetError THEN "error" ELSE IF Ok(o) THEN "ok" ELSE "nonok"

\* now.getTime() - lastCached.getTime() > expiryTime
IsExpired(entry, nowT) ==
    Greater(Minus(Num(nowT), DateGetTime(entry.date)), Num(expiryTime))

\* Mutant: the expired entry kept as the fallback.
StaleCheckKeep(cachedResponse, nowT) == cachedResponse

\* The stale check: the entry read for the key, or none when there was none
\* or it has expired.
StaleCheck(cachedResponse, nowT) ==
    IF cachedResponse # NoResponse /\ IsExpired(cachedResponse, nowT)
    THEN NoResponse
    ELSE cachedResponse

\* Mutant: the stale check deletes the entry it finds expired.
StaleCheckEvict(ents, key, nowT) ==
    IF ents[RUNTIME_CACHE][key] # NoResponse /\ IsExpired(ents[RUNTIME_CACHE][key], nowT)
    THEN [ents EXCEPT ![RUNTIME_CACHE][key] = NoResponse]
    ELSE ents

\* The store after the stale check: cachedResponse = null drops the handler's
\* own reference to the entry, the generation keeps it.
StaleCheckStore(ents, key, nowT) == ents

\* The copy of the network response that is cached: same status, body and
\* headers, its sw-cached-date header set to the current time.
StampedCopy(networkResponse, nowT) ==
    [networkResponse EXCEPT !.date = toISOString(nowT)]

\* A task's answer to the page: what kind of answer and the response.
Result(kind, resp) == [kind |-> kind, resp |-> resp]
NoResult == Result("none", NoResponse)
NotIntercepted == Result("passthrough", NoResponse)
Rejected == Result("rejected", NoResponse)

\* Mutant: the catch block never looks at the entry read before the fetch.
ApiFallbackOffline(cachedResponse) == Result("offline503", Offline503)

\* The catch block of handleApiRequest.
ApiFallback(cachedResponse) ==
    IF cachedResponse # NoResponse
    THEN Result("cached", cachedResponse)
    ELSE Result("offline503", Offline503)

\* ----------------------------------------------------------- cache store
GenNames == {CACHE_NAME, RUNTIME_CACHE, OLD_CACHE, OLD_RUNTIME}
EmptyCache == [k \in Keys |-> NoResponse]
Range(seq) == {seq[i] : i \in 1..Len(seq)}

\* caches.open(name): the generation is created when it does not exist.
Open(names, name) == IF name \in Range(names) THEN names ELSE Append(names, name)

\* Mutant: a write that leaves an existing entry in place.
CachePutIfAbsent(ents, name, key, response) ==
    IF ents[name][key] # NoResponse THEN ents
    ELSE [ents EXCEPT ![name][key] = response]

\* cache.put(key, response): the entry for the key is replaced whole.
CachePut(ents, name, key, response) == [ents EXCEPT ![name][key] = response]

\* caches.delete(name) on the list of names and on the stored entries.
DeleteName(names, name) == SelectSeq(names, LAMBDA n : n # name)
DeleteEntries(ents, gone) ==
    [n \in GenNames |-> IF n \in gone THEN EmptyCache ELSE ents[n]]

\* caches.match(request): the entry of the first generation, in creation
\* order, that holds one for the key.
MatchAny(names, ents, key) ==
    LET hits == {i \in 1..Len(names) : ents[names[i]][key] # NoResponse}
    IN  IF hits = {} THEN NoResponse
        ELSE ents[names[CHOOSE i \in hits : \A j \in hits : i <= j]][key]

\* caches.delete(name) as the tasks see it: a Cache object a handler holds
\* stays usable when its generation is deleted, but it is no longer the one
\* the name leads to; what is put into it is never found again.
Doom(tasks, gone) ==
    [t \in DOMAIN tasks |->
        IF tasks[t].cache = "open" /\ RUNTIME_CACHE \in gone
        THEN [tasks[t] EXCEPT !.cache = "doomed"]
        ELSE tasks[t]]

\* ------------------------------------------------------------------ state
VARIABLES
    now,          \* the wall clock
    cacheNames,   \* the existing generations, in creation order
    entries,      \* entries[generation][key]: the stored response, or NoResponse
    task,         \* the fetch-event tasks in progress
    last,         \* the fetch-event task that completed last, with its answer
    ctl,          \* the control flow started by a message or sync event
    events,       \* events dispatched so far
    live,         \* history: live[key] is the body handleApiRequest last returned
                  \* live for the key, while the entry it then wrote is the
                  \* one stored ("" otherwise)
    sw,           \* the worker's life cycle: installation and activation
    posted,       \* the messages posted to the clients so far
    page,         \* the page: the CurrencyConverter object of the window
    writtenAt     \* history: writtenAt[key] is the time at which the entry the
                  \* runtime generation holds for the key was stored (0: none)

vars ==
    <<now, cacheNames, entries, task, last, ctl, events, live, sw, posted, page,
      writtenAt>>

NoLive == [k \in Keys |-> ""]
NoWritten == [k \in Keys |-> 0]

IdleTask ==
    [pc |-> "idle", req |-> ReqOther, strategy |-> "none",
     cachedResponse |-> NoResponse, networkResponse |-> NoResponse,
     responseToCache |-> NoResponse, seen |-> NoResponse, seenAt |-> 0,
     seenLive |-> "", seenWritten |-> 0, putAt |-> 0, net |-> "none",
     fetched |-> FALSE, signal |-> "",
     replaced |-> NoResponse, cache |-> "none", result |-> NoResult]

IdleCtl ==
    [pc |-> "idle", op |-> "none", tag |-> "", type |-> "", names |-> <<>>,
     response |-> NoResponse, notified |-> "none"]

\* The life cycle of the worker.  state is the worker's state as the browser
\* keeps it; best[resource] is how far the install handler is with a resource
\* of allOtherFiles; names is what caches.keys() returned to the activate
\* handler, pending the deletions it started that have not settled yet.
NoBest == [k \in allOtherFiles |-> [at |-> "none", response |-> NoResponse]]
NoCore == [k \in coreFiles |-> NoResponse]
NewWorker ==
    [state |-> "installing", pc |-> "inst_open", core |-> NoCore, best |-> NoBest,
     skipWaiting |-> FALSE, names |-> <<>>, pending |-> {}, deleteFailed |-> {},
     claimed |-> FALSE]

\* The worker once installed and activated, its clients claimed.
ActiveWorker ==
    [NewWorker EXCEPT !.state = "activated", !.pc = "done",
                      !.skipWaiting = TRUE, !.claimed = TRUE]

\* The page (the script of the window).  Date.now() of the page is counted in
\* minutes; this.cacheTimeout is 5 * 60 * 1000 milliseconds.
cacheTimeout == 5
MaxMinute == cacheTimeout + MaxTicks

\* The URLs fetchWithCache is called with: this.apiUrl, and this.apiUrl
\* followed by a currency code.
apiUrl == "https://open.er-api.com/v6/latest"
PageUrls == {<<apiUrl>>, <<apiUrl, "USD">>}

\* The value response.json() resolves with: an object with its rates and its
\* error property (undefined when the object has none).
Undefined == "undefined"
Json(rates, error) == [rates |-> rates, error |-> error]
NoData == Json("", Undefined)
PageData == {Json("R1", Undefined), Json("R2", "null"), Json("", "'quota-reached'")}

\* if (data.error): every value but undefined, null, false, 0 and '' passes.
Truthy(v) == v \notin {Undefined, "null", "false", "0", "''"}

\* The body of a response: no JSON text, the JSON text null, or an object.
NoBody == [parse |-> "none", data |-> NoData]
NotJson == [parse |-> "SyntaxError", data |-> NoData]
JsonNull == [parse |-> "null", data |-> NoData]
JsonObject(d) == [parse |-> "object", data |-> d]
PageBodies == {NotJson, JsonNull} \cup {JsonObject(d) : d \in PageData}

\* How the fetch of the page settles: it rejects (no answer: TypeError; the
\* timeout aborted it: AbortError), or it resolves with a response.
PageFailure(name) == [kind |-> name, ok |-> FALSE, body |-> NoBody]
PageResponse(ok, body) == [kind |-> "response", ok |-> ok, body |-> body]
PageOutcomes ==
    {PageFailure("TypeError"), PageFailure("AbortError"), PageResponse(FALSE, NoBody)}
        \cup {PageResponse(TRUE, b) : b \in PageBodies}

\* An entry of this.cache, and what this.cache.get returns when there is none.
CacheEntry(data, timestamp) == [data |-> data, timestamp |-> timestamp]
NoEntry == CacheEntry(NoData, 0)

\* What a call of fetchWithCache came to: the data returned or the error
\* thrown, and whether the call made a network request.
Returned(kind, url, data, error, fetched) ==
    [kind |-> kind, url |-> url, data |-> data, error |-> error, fetched |-> fetched]
NoReturn == Returned("none", <<>>, NoData, "", FALSE)

NoCall == [pc |-> "idle", url |-> <<>>, body |-> NoBody]

\* loadRecentConversions: the list saved in sessionStorage, or the empty list.
NoItem == <<>>
loadRecentConversions(saved) == IF saved # NoItem THEN saved ELSE <<>>

\* The CurrencyConverter object after its constructor.  called is the method
\* of the history called last, sliced whether it cut the list; timer is the
\* timeout fetchWithCache set last: armed, fired or cleared.
NewPage ==
    [clock |-> 0, cache |-> [u \in PageUrls |-> NoEntry], call |-> NoCall,
     ret |-> NoReturn, sessionStorage |-> NoItem,
     recentConversions |-> loadRecentConversions(NoItem),
     called |-> "none", sliced |-> FALSE, timer |-> "none"]

Init ==
    /\ now = StartTime
    /\ cacheNames = <<>>
    /\ entries = [n \in GenNames |-> EmptyCache]
    /\ task = [t \in Tasks |-> IdleTask]
    /\ last = IdleTask
    /\ ctl = IdleCtl
    /\ events = 0
    /\ live = NoLive
    /\ sw = ActiveWorker
    /\ posted = <<>>
    /\ page = NewPage
    /\ writtenAt = NoWritten

Tick ==
    /\ now < MaxTime
    /\ now' = now + 1
    /\ UNCHANGED <<page, writtenAt, sw, posted, cacheNames, entries, task, last, ctl, events, live>>

\* ------------------------------------------------------------ fetch event
FirstStep(strategy) ==
    CASE strategy = "API" -> "api_match"
      [] strategy = "Static" -> "static_match"
      [] strategy = "Navigation" -> "nav_fetch"
      [] strategy = "Other" -> "other_fetch"

\* The task as the listener starts it for a request of the given class.
Started(r, strategy) ==
    [IdleTask EXCEPT !.req = r, !.strategy = strategy]

\* The fetch listener: a request that is not a GET is left alone (the
\* listener returns without respondWith), any other is answered by the
\* handler of its class; handleNavigationRequest and handleNetworkRequest
\* call fetch at once.
FetchEvent(t, r) ==
    /\ task[t].pc = "idle"
    /\ \A u \in Tasks : u < t => task[u].pc # "idle"
    /\ events < MaxEvents
    /\ events' = events + 1
    /\ IF Classify(r) = "none"
       THEN /\ last' = [Started(r, "none") EXCEPT !.pc = "done",
                                                  !.result = NotIntercepted]
            /\ UNCHANGED task
       ELSE /\ task' = [task EXCEPT ![t] =
                    [Started(r, Classify(r)) EXCEPT
                        !.pc = FirstStep(Classify(r)),
                        !.fetched = Classify(r) \in {"Navigation", "Other"}]]
            /\ UNCHANGED last
    /\ UNCHANGED <<page, writtenAt, sw, posted, now, cacheNames, entries, ctl, live>>

\* The task's handler returns: its answer goes to the page and the task ends.
Complete(t, result, net) ==
    /\ last' = [task[t] EXCEPT !.pc = "done", !.result = result, !.net = net,
                               !.replaced = entries[RUNTIME_CACHE][CacheKey(task[t].req)],
                               !.cachedResponse = NoResponse,
                               !.networkResponse = NoResponse,
                               !.responseToCache = NoResponse,
                               !.putAt = 0]
    /\ task' = [task EXCEPT ![t] = IdleTask]

\* The task's handler goes on to its next await.
Continue(t, next) ==
    /\ task' = [task EXCEPT ![t] = next]
    /\ UNCHANGED last

\* ------------------------------------------------------- handleApiRequest
\* caches.open(RUNTIME_CACHE), cache.match(cacheKey) and the stale check.
handleApiRequest_match(t) ==
    /\ task[t].pc = "api_match"
    /\ LET entry == entries[RUNTIME_CACHE][CacheKey(task[t].req)]
       IN  Continue(t, [task[t] EXCEPT
                            !.pc = "api_fetch",
                            !.seen = entry,
                            !.seenAt = now,
                            !.seenLive = live[CacheKey(task[t].req)],
                            !.seenWritten = writtenAt[CacheKey(task[t].req)],
                            !.fetched = TRUE,
                            !.cache = "open",
                            !.cachedResponse = StaleCheck(entry, now)])
    /\ cacheNames' = Open(cacheNames, RUNTIME_CACHE)
    /\ entries' = StaleCheckStore(entries, CacheKey(task[t].req), now)
    /\ UNCHANGED <<page, writtenAt, sw, posted, now, ctl, events, live>>

\* Mutant: the fetch goes on after the request's signal has aborted.
FetchIgnoresSignal(signal, outcome) == TRUE

\* fetch(request) carries the signal of the page's request: once the page has
\* aborted it, the fetch rejects.
FetchSettles(signal, outcome) == signal = "aborted" => outcome = NetError

\* fetch(request) settles: an OK response is stamped and handed to cache.put,
\* anything else goes to the catch block.
handleApiRequest_fetch(t, outcome) ==
    /\ task[t].pc = "api_fetch"
    /\ FetchSettles(task[t].signal, outcome)
    /\ IF outcome # NetError /\ Ok(outcome)
       THEN Continue(t, [task[t] EXCEPT
                            !.pc = "api_put",
                            !.net = "ok",
                            !.networkResponse = outcome,
                            !.responseToCache = StampedCopy(outcome, now),
                            !.putAt = now])
       ELSE Complete(t, ApiFallback(task[t].cachedResponse), NetClass(outcome))
    /\ UNCHANGED <<page, writtenAt, sw, posted, now, cacheNames, entries, ctl, events, live>>

\* cache.put(cacheKey, ...) settles; the live response is returned.  The put is
\* made into the Cache object opened at the start: when the runtime generation
\* was deleted since, the store the names lead to is left as it is.
handleApiRequest_put(t) ==
    /\ task[t].pc = "api_put"
    /\ IF task[t].cache = "doomed"
       THEN UNCHANGED <<entries, live, writtenAt>>
       ELSE /\ entries' = CachePut(entries, RUNTIME_CACHE, CacheKey(task[t].req),
                                    task[t].responseToCache)
            /\ live' = [live EXCEPT ![CacheKey(task[t].req)] =
                                        task[t].networkResponse.body]
            /\ writtenAt' = [writtenAt EXCEPT ![CacheKey(task[t].req)] = now]
    /\ UNCHANGED cacheNames
    /\ Complete(t, Result("network", task[t].networkResponse), "ok")
    /\ UNCHANGED <<page, sw, posted, now, ctl, events>>

\* ---------------------------------------------------- handleStaticRequest
\* Mutant: the lookup made in the runtime generation alone.
StaticLookupRuntimeOnly(names, ents, request) ==
    IF RUNTIME_CACHE \in Range(names)
    THEN ents[RUNTIME_CACHE][CacheKey(request)]
    ELSE NoResponse

\* caches.match(request): the lookup is made in every existing generation.
StaticLookup(names, ents, request) == MatchAny(names, ents, CacheKey(request))

\* caches.match(request) settles: a hit is returned at once.
handleStaticRequest_match(t) ==
    /\ task[t].pc = "static_match"
    /\ LET hit == StaticLookup(cacheNames, entries, task[t].req)
       IN  IF hit # NoResponse
           THEN Complete(t, Result("cached", hit), "none")
           ELSE Continue(t, [task[t] EXCEPT !.pc = "static_fetch",
                                            !.fetched = TRUE])
    /\ UNCHANGED <<page, writtenAt, sw, posted, now, cacheNames, entries, ctl, events, live>>

\* Mutant: the placeholder returned whatever the destination.
StaticFailurePlaceholder(request) == Result("placeholder404", Placeholder404)

\* What handleStaticRequest returns when fetch(request) throws.
StaticFailure(request) ==
    IF request.destination = "image"
    THEN Result("placeholder404", Placeholder404)
    ELSE Rejected

\* fetch(request) settles.
handleStaticRequest_fetch(t, outcome) ==
    /\ task[t].pc = "static_fetch"
    /\ outcome \in FetchOutcomes(task[t].req)
    /\ IF outcome = NetError
       THEN Complete(t, StaticFailure(task[t].req), "error")
       ELSE IF Ok(outcome)
       THEN Continue(t, [task[t] EXCEPT !.pc = "static_put", !.net = "ok",
                                        !.networkResponse = outcome])
       ELSE Complete(t, Result("network", outcome), "nonok")
    /\ UNCHANGED <<page, writtenAt, sw, posted, now, cacheNames, entries, ctl, events, live>>

\* caches.open(CACHE_NAME) settles, the clone is put and the response returned.
handleStaticRequest_put(t) ==
    /\ task[t].pc = "static_put"
    /\ cacheNames' = Open(cacheNames, CACHE_NAME)
    /\ entries' = CachePut(entries, CACHE_NAME, CacheKey(task[t].req),
                            task[t].networkResponse)
    /\ Complete(t, Result("network", task[t].networkResponse), "ok")
    /\ UNCHANGED <<page, writtenAt, sw, posted, now, ctl, events, live>>

\* ------------------------------------------------ handleNavigationRequest
\* fetch(request) settles: an OK response is returned, anything else falls
\* through to the cached root document.
handleNavigationRequest_fetch(t, outcome) ==
    /\ task[t].pc = "nav_fetch"
    /\ IF outcome # NetError /\ Ok(outcome)
       THEN Complete(t, Result("network", outcome), "ok")
       ELSE Continue(t, [task[t] EXCEPT !.pc = "nav_match",
                                        !.net = NetClass(outcome)])
    /\ UNCHANGED <<page, writtenAt, sw, posted, now, cacheNames, entries, ctl, events, live>>

\* Mutant: the offline page returned whether or not the root document is cached.
NavigationFallbackOffline(cachedResponse) == Result("offlineHtml", OfflineHtml)

\* What handleNavigationRequest returns once the fetch has failed or was not
\* OK: the cached root document when there is one, else the offline page.
NavigationFallback(cachedResponse) ==
    IF cachedResponse # NoResponse
    THEN Result("cached", cachedResponse)
    ELSE Result("offlineHtml", OfflineHtml)

\* caches.match('/') settles: the cached root document, or the offline page.
handleNavigationRequest_match(t) ==
    /\ task[t].pc = "nav_match"
    /\ LET hit == MatchAny(cacheNames, entries, RootKey)
       IN  /\ last' = [task[t] EXCEPT !.pc = "done",
                                      !.result = NavigationFallback(hit),
                                      !.seen = hit, !.seenAt = now]
           /\ task' = [task EXCEPT ![t] = IdleTask]
    /\ UNCHANGED <<page, writtenAt, sw, posted, now, cacheNames, entries, ctl, events, live>>

\* --------------------------------------------------- handleNetworkRequest
\* Mutant: a failed fetch answered with the offline response.
NetworkOnlyOffline(outcome) ==
    IF outcome = NetError
    THEN Result("offline503", Offline503)
    ELSE Result("network", outcome)

\* What handleNetworkRequest does with the outcome of fetch(request).
NetworkOnly(outcome) ==
    IF outcome = NetError THEN Rejected ELSE Result("network", outcome)

handleNetworkRequest_fetch(t, outcome) ==
    /\ task[t].pc = "other_fetch"
    /\ Complete(t, NetworkOnly(outcome), NetClass(outcome))
    /\ UNCHANGED <<page, writtenAt, sw, posted, now, cacheNames, entries, ctl, events, live>>

\* ------------------------------------------------------- message and sync
Messages ==
    {[hasData |-> TRUE, type |-> "CACHE_UPDATE"],
     [hasData |-> TRUE, type |-> "CLEAR_CACHE"],
     [hasData |-> TRUE, type |-> "PING"],
     [hasData |-> FALSE, type |-> ""]}
SyncTags == {"background-sync-currency-rates", "other-tag"}

\* Mutant: every message that carries data but CLEAR_CACHE starts the update.
MessageOpAnyType(m) ==
    IF m.hasData /\ m.type = "CLEAR_CACHE" THEN "clear"
    ELSE IF m.hasData THEN "update"
    ELSE "none"

\* event.data.type, for the record of the control flow.
MessageType(m) == IF m.hasData THEN m.type ELSE "(no data)"

\* Which function the message listener calls.
MessageOp(m) ==
    IF m.hasData /\ m.type = "CACHE_UPDATE" THEN "update"
    ELSE IF m.hasData /\ m.type = "CLEAR_CACHE" THEN "clear"
    ELSE "none"

CtlStart(op) ==
    CASE op = "update" -> [IdleCtl EXCEPT !.pc = "upd_delete", !.op = op]
      [] op = "clear" -> [IdleCtl EXCEPT !.pc = "clr_keys", !.op = op]
      [] op = "sync" -> [IdleCtl EXCEPT !.pc = "sync_fetch", !.op = op]
      [] OTHER -> [IdleCtl EXCEPT !.pc = "done"]

MessageEvent(m) ==
    /\ ctl.pc \in {"idle", "done"}
    /\ events < MaxEvents
    /\ events' = events + 1
    /\ ctl' = [CtlStart(MessageOp(m)) EXCEPT !.type = MessageType(m)]
    /\ UNCHANGED <<page, writtenAt, sw, posted, now, cacheNames, entries, task, last, live>>

\* Mutant: the refresh started whatever the tag.
SyncOpAnyTag(tag) == "sync"

\* Which function the sync listener calls.
SyncOp(tag) == IF tag = "background-sync-currency-rates" THEN "sync" ELSE "none"

SyncEvent(tag) ==
    /\ ctl.pc \in {"idle", "done"}
    /\ events < MaxEvents
    /\ events' = events + 1
    /\ ctl' = [CtlStart(SyncOp(tag)) EXCEPT !.tag = tag]
    /\ UNCHANGED <<page, writtenAt, sw, posted, now, cacheNames, entries, task, last, live>>

\* updateCache: caches.delete(RUNTIME_CACHE) settles, syncCurrencyRates starts.
updateCache_delete ==
    /\ ctl.pc = "upd_delete"
    /\ cacheNames' = DeleteName(cacheNames, RUNTIME_CACHE)
    /\ entries' = DeleteEntries(entries, {RUNTIME_CACHE})
    /\ ctl' = [ctl EXCEPT !.pc = "sync_fetch"]
    /\ live' = NoLive
    /\ writtenAt' = NoWritten
    /\ task' = Doom(task, {RUNTIME_CACHE})
    /\ UNCHANGED <<page, sw, posted, now, last, events>>

\* Mutant: updateCache returns once syncCurrencyRates has, telling no one.
AfterSyncSilent(c) == [c EXCEPT !.pc = "done", !.response = NoResponse]

\* Where the control flow goes once syncCurrencyRates has returned.
AfterSync(c) ==
    IF c.op = "update"
    THEN [c EXCEPT !.pc = "upd_notify", !.response = NoResponse]
    ELSE [c EXCEPT !.pc = "done", !.response = NoResponse]

\* Mutant: the error of the fetch thrown on to the caller.
SyncCatchRethrow(c) == [c EXCEPT !.pc = "rejected", !.response = NoResponse]

\* syncCurrencyRates when its fetch throws: the error is caught and logged,
\* the function returns normally.
SyncCatch(c) == AfterSync(c)

\* syncCurrencyRates: the fetch of the USD endpoint settles.
syncCurrencyRates_fetch(outcome) ==
    /\ ctl.pc = "sync_fetch"
    /\ IF outcome = NetError
       THEN ctl' = SyncCatch(ctl)
       ELSE IF Ok(outcome)
       THEN ctl' = [ctl EXCEPT !.pc = "sync_put", !.response = outcome]
       ELSE ctl' = AfterSync(ctl)
    /\ UNCHANGED <<page, writtenAt, sw, posted, now, cacheNames, entries, task, last, events, live>>

\* The entry syncCurrencyRates stores: response.clone(), headers as received.
SyncCopy(response) == response

\* syncCurrencyRates: caches.open(RUNTIME_CACHE) and cache.put settle.
syncCurrencyRates_put ==
    /\ ctl.pc = "sync_put"
    /\ cacheNames' = Open(cacheNames, RUNTIME_CACHE)
    /\ entries' = CachePut(entries, RUNTIME_CACHE, SyncKey, SyncCopy(ctl.response))
    /\ ctl' = AfterSync(ctl)
    /\ live' = [live EXCEPT ![SyncKey] = ""]
    /\ writtenAt' = [writtenAt EXCEPT ![SyncKey] = now]
    /\ UNCHANGED <<page, sw, posted, now, task, last, events>>

\* updateCache: the clients are told CACHE_UPDATED.
updateCache_notify ==
    /\ ctl.pc = "upd_notify"
    /\ ctl' = [ctl EXCEPT !.pc = "done", !.notified = "CACHE_UPDATED"]
    /\ posted' = Append(posted, "CACHE_UPDATED")
    /\ UNCHANGED <<page, writtenAt, sw, now, cacheNames, entries, task, last, events, live>>

\* clearCache: caches.keys() settles.
clearCache_keys ==
    /\ ctl.pc = "clr_keys"
    /\ ctl' = [ctl EXCEPT !.pc = "clr_delete", !.names = cacheNames]
    /\ UNCHANGED <<page, writtenAt, sw, posted, now, cacheNames, entries, task, last, events, live>>

\* Mutant: the runtime generation alone is deleted.
ClearTargetsRuntime(names) == Range(names) \cap {RUNTIME_CACHE}

\* cacheNames.map(cacheName => caches.delete(cacheName)): every name listed.
ClearTargets(names) == Range(names)

\* clearCache: every caches.delete(cacheName) has settled.
clearCache_delete ==
    /\ ctl.pc = "clr_delete"
    /\ cacheNames' = SelectSeq(cacheNames, LAMBDA n : n \notin ClearTargets(ctl.names))
    /\ entries' = DeleteEntries(entries, ClearTargets(ctl.names))
    /\ ctl' = [ctl EXCEPT !.pc = "clr_notify", !.names = <<>>]
    /\ live' = IF RUNTIME_CACHE \in ClearTargets(ctl.names) THEN NoLive ELSE live
    /\ writtenAt' = IF RUNTIME_CACHE \in ClearTargets(ctl.names)
                    THEN NoWritten ELSE writtenAt
    /\ task' = Doom(task, ClearTargets(ctl.names))
    /\ UNCHANGED <<page, sw, posted, now, last, events>>

\* clearCache: the clients are told CACHE_CLEARED.
clearCache_notify ==
    /\ ctl.pc = "clr_notify"
    /\ ctl' = [ctl EXCEPT !.pc = "done", !.notified = "CACHE_CLEARED"]
    /\ posted' = Append(posted, "CACHE_CLEARED")
    /\ UNCHANGED <<page, writtenAt, sw, now, cacheNames, entries, task, last, events, live>>

\* ---------------------------------------------------------------- install
\* What the network answers for a file of coreFiles.
CoreOutcomes == {Response(200, "B1", NoHeader), Response(500, "ERR", NoHeader), NetError}

\* Mutant: the best-effort fetches start whatever became of the core batch.
AddAllOkAlways(responses) == TRUE

\* cache.addAll resolves when every file was fetched with an OK status.
AddAllOk(responses) ==
    \A k \in coreFiles : responses[k] # NetError /\ Ok(responses[k])

\* Mutant: every file fetched with an OK status is stored, the others are not.
AddAllEach(ents, name, responses) ==
    [ents EXCEPT ![name] =
        [k \in Keys |-> IF k \in coreFiles /\ responses[k] # NetError /\ Ok(responses[k])
                        THEN responses[k] ELSE ents[name][k]]]

\* cache.addAll(coreFiles): the responses are stored together, or none is.
AddAll(ents, name, responses) ==
    IF AddAllOk(responses)
    THEN [ents EXCEPT ![name] =
            [k \in Keys |-> IF k \in coreFiles THEN responses[k] ELSE ents[name][k]]]
    ELSE ents

\* The resource is written as an absolute URL (resource.startsWith('http')):
\* it is fetched with mode no-cors, and the answer, if any, is opaque.
StartsWithHttp(resource) == resource.origin # SELF_ORIGIN
BestOutcomes(resource) ==
    IF StartsWithHttp(resource) THEN {Opaque, NetError} ELSE NetOutcomes

\* Mutant: an opaque response is not accepted.
StorableOkOnly(response) == Ok(response)

\* response.ok || response.type === 'opaque'
Storable(response) == Ok(response) \/ response = Opaque

\* Where a resource of allOtherFiles has come to rest.
Settled == {"stored", "skipped", "failed", "putFailed"}

\* Mutant: the promise of the resource rejects when its fetch fails.
BestCatchRethrow(error) == [at |-> "rejected", response |-> NoResponse]

\* The .catch of a resource's promise: the error is logged, the promise
\* resolves.  It follows the .then, so it catches a failed cache.put as well.
BestCatch(error) == [at |-> error, response |-> NoResponse]

\* caches.open(CACHE_NAME) settles.
install_open ==
    /\ sw.state = "installing" /\ sw.pc = "inst_open"
    /\ cacheNames' = Open(cacheNames, CACHE_NAME)
    /\ sw' = [sw EXCEPT !.pc = "inst_addAll"]
    /\ UNCHANGED <<page, writtenAt, now, entries, task, last, ctl, events, live, posted>>

\* await cache.addAll(coreFiles) settles; when it resolves, the fetch of every
\* resource of allOtherFiles is started.
install_addAll(responses) ==
    /\ sw.state = "installing" /\ sw.pc = "inst_addAll"
    /\ entries' = AddAll(entries, CACHE_NAME, responses)
    /\ sw' = IF AddAllOk(responses)
             THEN [sw EXCEPT !.pc = "inst_best", !.core = responses,
                             !.best = [k \in allOtherFiles |->
                                        [at |-> "fetching", response |-> NoResponse]]]
             ELSE [sw EXCEPT !.pc = "inst_rejected", !.core = responses]
    /\ UNCHANGED <<page, writtenAt, now, cacheNames, task, last, ctl, events, live, posted>>

\* fetch(resource, requestOptions) settles.
install_fetch(resource, outcome) ==
    /\ sw.state = "installing" /\ sw.pc = "inst_best"
    /\ sw.best[resource].at = "fetching"
    /\ sw' = [sw EXCEPT !.best[resource] =
                IF outcome = NetError THEN BestCatch("failed")
                ELSE IF Storable(outcome) THEN [at |-> "putting", response |-> outcome]
                ELSE [at |-> "skipped", response |-> NoResponse]]
    /\ UNCHANGED <<page, writtenAt, now, cacheNames, entries, task, last, ctl, events, live, posted>>

\* cache.put(resource, response) settles: the entry is stored, or the put fails.
install_put(resource, stored) ==
    /\ sw.state = "installing" /\ sw.pc = "inst_best"
    /\ sw.best[resource].at = "putting"
    /\ IF stored
       THEN /\ entries' = CachePut(entries, CACHE_NAME, resource, sw.best[resource].response)
            /\ sw' = [sw EXCEPT !.best[resource] = [at |-> "stored", response |-> NoResponse]]
       ELSE /\ sw' = [sw EXCEPT !.best[resource] = BestCatch("putFailed")]
            /\ UNCHANGED entries
    /\ UNCHANGED <<page, writtenAt, now, cacheNames, task, last, ctl, events, live, posted>>

\* Mutant: the .then runs as soon as one of the promises has resolved.
PromiseAnyResolved(best) == \E k \in allOtherFiles : best[k].at \in Settled

\* Promise.all(allOtherFiles.map(...)) resolves once every promise of the
\* array has resolved.
PromiseAllResolved(best) == \A k \in allOtherFiles : best[k].at \in Settled

\* Promise.all resolves: self.skipWaiting() is called and the promise given to
\* event.waitUntil resolves; the worker is installed.
install_skipWaiting ==
    /\ sw.state = "installing" /\ sw.pc = "inst_best"
    /\ PromiseAllResolved(sw.best)
    /\ sw' = [sw EXCEPT !.state = "installed", !.pc = "waiting", !.skipWaiting = TRUE]
    /\ UNCHANGED <<page, writtenAt, now, cacheNames, entries, task, last, ctl, events, live, posted>>

\* The outer .catch: the error is thrown again, the promise given to
\* event.waitUntil rejects and the browser discards the worker.
install_catch ==
    /\ sw.state = "installing"
    /\ \/ sw.pc = "inst_rejected"
       \/ sw.pc = "inst_best" /\ \E k \in allOtherFiles : sw.best[k].at = "rejected"
    /\ sw' = [sw EXCEPT !.state = "redundant", !.pc = "done"]
    /\ UNCHANGED <<page, writtenAt, now, cacheNames, entries, task, last, ctl, events, live, posted>>

\* --------------------------------------------------------------- activate
\* Mutant: the runtime generation of an earlier version is spared.
CondemnedStaticOnly(cacheName) ==
    cacheName # CACHE_NAME /\ cacheName # RUNTIME_CACHE /\ cacheName # OLD_RUNTIME

\* Mutant: the current runtime generation is not spared.
CondemnedButStatic(cacheName) == cacheName # CACHE_NAME

\* cacheName !== CACHE_NAME && cacheName !== RUNTIME_CACHE
Condemned(cacheName) == cacheName # CACHE_NAME /\ cacheName # RUNTIME_CACHE

\* The activate event: skipWaiting() was called, so the installed worker is
\* activated without waiting for the clients of the earlier version to close.
activate_event ==
    /\ sw.state = "installed" /\ sw.skipWaiting
    /\ sw' = [sw EXCEPT !.state = "activating", !.pc = "act_keys"]
    /\ UNCHANGED <<page, writtenAt, now, cacheNames, entries, task, last, ctl, events, live, posted>>

\* caches.keys() settles and caches.delete is called for every other name.
activate_keys ==
    /\ sw.state = "activating" /\ sw.pc = "act_keys"
    /\ sw' = [sw EXCEPT !.pc = "act_delete", !.names = cacheNames,
                        !.pending = {n \in Range(cacheNames) : Condemned(n)}]
    /\ UNCHANGED <<page, writtenAt, now, cacheNames, entries, task, last, ctl, events, live, posted>>

\* One caches.delete(cacheName) settles: the generation is gone, or the
\* deletion fails.  Those still pending settle whatever became of the others.
activate_delete(cacheName, deleted) ==
    /\ sw.pc \in {"act_delete", "act_caught"}
    /\ cacheName \in sw.pending
    /\ IF deleted
       THEN /\ cacheNames' = DeleteName(cacheNames, cacheName)
            /\ entries' = DeleteEntries(entries, {cacheName})
            /\ sw' = [sw EXCEPT !.pending = @ \ {cacheName}]
       ELSE /\ sw' = [sw EXCEPT !.pending = @ \ {cacheName},
                                !.deleteFailed = @ \cup {cacheName}]
            /\ UNCHANGED <<cacheNames, entries>>
    /\ UNCHANGED <<page, writtenAt, now, task, last, ctl, events, live, posted>>

\* Promise.all resolves: self.clients.claim() is called, the worker is active.
activate_claim ==
    /\ sw.state = "activating" /\ sw.pc = "act_delete"
    /\ sw.pending = {} /\ sw.deleteFailed = {}
    /\ sw' = [sw EXCEPT !.state = "activated", !.pc = "done", !.claimed = TRUE]
    /\ UNCHANGED <<page, writtenAt, now, cacheNames, entries, task, last, ctl, events, live, posted>>

\* Promise.all rejects with the first deletion that fails: the .then that
\* claims the clients is passed over, the .catch logs the error, the promise
\* given to event.waitUntil resolves and the worker is active.
activate_catch ==
    /\ sw.state = "activating" /\ sw.pc = "act_delete"
    /\ sw.deleteFailed # {}
    /\ sw' = [sw EXCEPT !.state = "activated", !.pc = "act_caught"]
    /\ UNCHANGED <<page, writtenAt, now, cacheNames, entries, task, last, ctl, events, live, posted>>

\* ---------------------------------------------------------- fetchWithCache
\* The state of the worker and of the store, which the page's script leaves
\* alone.
workerVars ==
    <<now, cacheNames, entries, task, last, ctl, events, live, sw, posted, writtenAt>>

PageTick ==
    /\ page.clock < MaxMinute
    /\ page' = [page EXCEPT !.clock = @ + 1]
    /\ UNCHANGED workerVars

\* Mutant: an entry as old as the timeout is still served.
IsFreshInclusive(cached, nowT) ==
    cached # NoEntry /\ nowT - cached.timestamp <= cacheTimeout

\* cached && Date.now() - cached.timestamp < this.cacheTimeout
IsFresh(cached, nowT) ==
    cached # NoEntry /\ nowT - cached.timestamp < cacheTimeout

\* The call up to its first await: a fresh entry is returned, else fetch(url)
\* is called.
fetchWithCache_call(url) ==
    /\ page.call.pc = "idle"
    /\ LET cached == page.cache[url]
       IN  IF IsFresh(cached, page.clock)
           THEN page' = [page EXCEPT
                    !.ret = Returned("cached", url, cached.data, "", FALSE)]
           ELSE page' = [page EXCEPT
                    !.call = [pc |-> "fetch", url |-> url, body |-> NoBody],
                    !.timer = "armed",
                    !.ret = NoReturn]
    /\ UNCHANGED workerVars

\* controller.abort() reaches the worker: the signal of every API request in
\* flight whose fetch has not settled is aborted.
Abort(tasks) ==
    [t \in DOMAIN tasks |->
        IF tasks[t].pc \in {"api_match", "api_fetch"}
        THEN [tasks[t] EXCEPT !.signal = "aborted"]
        ELSE tasks[t]]

\* The timeout fires while fetch(url) is pending: controller.abort().
PageTimeout ==
    /\ page.call.pc = "fetch"
    /\ page.timer = "armed"
    /\ page' = [page EXCEPT !.timer = "fired"]
    /\ task' = Abort(task)
    /\ UNCHANGED <<now, cacheNames, entries, last, ctl, events, live, sw, posted, writtenAt>>

\* Mutant: the timer is left as it is.
clearTimeoutSkipped(timer) == timer

\* clearTimeout(timeoutId)
clearTimeout(timer) == "cleared"

\* The catch block: the error thrown to the caller.
PageCatch(name, onLine) ==
    IF name = "AbortError" THEN "Request timeout. Please try again."
    ELSE IF ~onLine THEN "You are offline. Please check your internet connection."
    ELSE name

\* await fetch(url, ...) settles: a rejection and a response that is not OK go
\* to the catch block, an OK response is read as JSON.
fetchWithCache_fetch(outcome, onLine) ==
    /\ page.call.pc = "fetch"
    /\ outcome.kind = "AbortError" <=> page.timer = "fired"
    /\ IF outcome.kind = "response" /\ outcome.ok
       THEN page' = [page EXCEPT !.call.pc = "json", !.call.body = outcome.body,
                                 !.timer = clearTimeout(@)]
       ELSE page' = [page EXCEPT
                !.call = NoCall,
                !.timer = clearTimeout(@),
                !.ret = Returned("thrown", page.call.url, NoData,
                                 PageCatch(IF outcome.kind = "response"
                                           THEN "HTTP" ELSE outcome.kind, onLine),
                                 TRUE)]
    /\ UNCHANGED workerVars

\* Mutant: the data is stored before its error property is looked at.
StoreIfAny(cache, url, data, nowT) ==
    [cache EXCEPT ![url] = CacheEntry(data, nowT)]

\* if (data.error) throw ...; this.cache.set(cacheKey, {data, timestamp}).
StoreIf(cache, url, data, nowT) ==
    IF Truthy(data.error) THEN cache
    ELSE [cache EXCEPT ![url] = CacheEntry(data, nowT)]

\* await response.json() settles: text that is no JSON, the value null (whose
\* error property cannot be read) and data with an error go to the catch
\* block, which clears the timer once more; any other data is stored with the current time and returned.
fetchWithCache_json(onLine) ==
    /\ page.call.pc = "json"
    /\ LET body == page.call.body
           url == page.call.url
       IN  IF body.parse # "object"
           THEN page' = [page EXCEPT
                    !.call = NoCall,
                    !.timer = clearTimeout(@),
                    !.ret = Returned("thrown", url, NoData,
                                     PageCatch(IF body.parse = "null"
                                               THEN "TypeError" ELSE body.parse, onLine),
                                     TRUE)]
           ELSE page' = [page EXCEPT
                    !.call = NoCall,
                    !.cache = StoreIf(page.cache, url, body.data, page.clock),
                    !.timer = IF Truthy(body.data.error)
                              THEN clearTimeout(@) ELSE @,
                    !.ret = IF Truthy(body.data.error)
                            THEN Returned("thrown", url, NoData,
                                          PageCatch("Error", onLine), TRUE)
                            ELSE Returned("network", url, body.data, "", TRUE)]
    /\ UNCHANGED workerVars

\* ------------------------------------------- saveConversion, clearHistory
\* What the page converts: the arguments of saveConversion.
Conversions ==
    {[amount |-> "100", fromCurrency |-> "USD", convertedAmount |-> "92.00",
      toCurrency |-> "EUR", rate |-> "0.92"]}

\* The conversion object: the arguments, with id Date.now() and timestamp
\* new Date().toISOString().
Conversion(c, nowT) ==
    [id |-> nowT, amount |-> c.amount, fromCurrency |-> c.fromCurrency,
     convertedAmount |-> c.convertedAmount, toCurrency |-> c.toCurrency,
     rate |-> c.rate, timestamp |-> toISOString(nowT)]

\* list.slice(begin, end)
Slice(list, begin, end) ==
    SubSeq(list, begin + 1, IF end < Len(list) THEN end ELSE Len(list))

\* Mutant: the conversion is added at the end of the list (push).
RememberPush(list, conversion) ==
    LET pushed == Append(list, conversion)
    IN  IF Len(pushed) > 10 THEN Slice(pushed, 0, 10) ELSE pushed

\* Mutant: the list is cut one entry too late.
RememberEleven(list, conversion) ==
    LET unshifted == <<conversion>> \o list
    IN  IF Len(unshifted) > 11 THEN Slice(unshifted, 0, 11) ELSE unshifted

\* this.recentConversions.unshift(conversion), then the list is cut to its
\* first 10 entries when it is longer.
Remember(list, conversion) ==
    LET unshifted == <<conversion>> \o list
    IN  IF Len(unshifted) > 10 THEN Slice(unshifted, 0, 10) ELSE unshifted

\* saveConversion, with saveRecentConversions (the list is written to
\* sessionStorage).
saveConversion(c) ==
    /\ LET list == Remember(page.recentConversions, Conversion(c, page.clock))
       IN  page' = [page EXCEPT !.recentConversions = list,
                                !.sessionStorage = list,
                                !.called = "saveConversion",
                                !.sliced = Len(page.recentConversions) + 1 > 10]
    /\ UNCHANGED workerVars

\* clearHistory, with saveRecentConversions.
clearHistory ==
    /\ page' = [page EXCEPT !.recentConversions = <<>>,
                            !.sessionStorage = <<>>,
                            !.called = "clearHistory",
                            !.sliced = FALSE]
    /\ UNCHANGED workerVars

\* ---------------------------------------------------------- specification
Next ==
    \/ Tick
    \/ \E t \in Tasks, r \in Requests : FetchEvent(t, r)
    \/ \E t \in Tasks : handleApiRequest_match(t)
    \/ \E t \in Tasks, o \in NetOutcomes : handleApiRequest_fetch(t, o)
    \/ \E t \in Tasks : handleApiRequest_put(t)
    \/ \E t \in Tasks : handleStaticRequest_match(t)
    \/ \E t \in Tasks, o \in AllOutcomes : handleStaticRequest_fetch(t, o)
    \/ \E t \in Tasks : handleStaticRequest_put(t)
    \/ \E t \in Tasks, o \in NetOutcomes : handleNavigationRequest_fetch(t, o)
    \/ \E t \in Tasks : handleNavigationRequest_match(t)
    \/ \E t \in Tasks, o \in NetOutcomes : handleNetworkRequest_fetch(t, o)
    \/ \E m \in Messages : MessageEvent(m)
    \/ \E tag \in SyncTags : SyncEvent(tag)
    \/ updateCache_delete
    \/ \E o \in NetOutcomes : syncCurrencyRates_fetch(o)
    \/ syncCurrencyRates_put
    \/ updateCache_notify
    \/ clearCache_keys
    \/ clearCache_delete
    \/ clearCache_notify

Spec == Init /\ [][Next]_vars

\* The active worker with the store as an installation and an API request for
\* the USD endpoint leave it: the core files in the static generation, the
\* stamped answer in the runtime generation.
StoredEntries ==
    [n \in GenNames |->
        IF n = CACHE_NAME
        THEN [k \in Keys |-> IF k \in coreFiles
                             THEN Response(200, "B1", NoHeader) ELSE NoResponse]
        ELSE IF n = RUNTIME_CACHE
        THEN [EmptyCache EXCEPT ![SyncKey] = Response(200, "B1", toISOString(StartTime))]
        ELSE EmptyCache]

InitStored ==
    /\ now = StartTime
    /\ cacheNames = <<CACHE_NAME, RUNTIME_CACHE>>
    /\ entries = StoredEntries
    /\ task = [t \in Tasks |-> IdleTask]
    /\ last = IdleTask
    /\ ctl = IdleCtl
    /\ events = 0
    /\ live = [NoLive EXCEPT ![SyncKey] = "B1"]
    /\ sw = ActiveWorker
    /\ posted = <<>>
    /\ page = NewPage
    /\ writtenAt = [NoWritten EXCEPT ![SyncKey] = StartTime]

SpecStored == InitStored /\ [][Next]_vars

\* The life cycle of a new worker, from its install event to its activation.
\* The store is as an earlier version of the worker left it; fetch, message
\* and sync events are dispatched to the worker only once it is active.
OldStores ==
    {<<>>, <<OLD_CACHE>>, <<OLD_CACHE, OLD_RUNTIME>>,
     <<RUNTIME_CACHE, OLD_CACHE, OLD_RUNTIME>>}

OldEntries(names) ==
    [n \in GenNames |->
        IF n \in Range(names) /\ n = OLD_CACHE
        THEN [EmptyCache EXCEPT ![RootKey] = Response(200, "B2", NoHeader)]
        ELSE IF n \in Range(names) /\ n \in {RUNTIME_CACHE, OLD_RUNTIME}
        THEN [EmptyCache EXCEPT ![SyncKey] = Response(200, "B2", toISOString(StartTime - 1))]
        ELSE EmptyCache]

InitLifecycle ==
    /\ now = StartTime
    /\ cacheNames \in OldStores
    /\ entries = OldEntries(cacheNames)
    /\ task = [t \in Tasks |-> IdleTask]
    /\ last = IdleTask
    /\ ctl = IdleCtl
    /\ events = 0
    /\ live = NoLive
    /\ sw = NewWorker
    /\ posted = <<>>
    /\ page = NewPage
    /\ writtenAt = IF RUNTIME_CACHE \in Range(cacheNames)
                   THEN [NoWritten EXCEPT ![SyncKey] = StartTime - 1]
                   ELSE NoWritten

NextLifecycle ==
    \/ install_open
    \/ \E responses \in [coreFiles -> CoreOutcomes] : install_addAll(responses)
    \/ \E k \in allOtherFiles : \E o \in BestOutcomes(k) : install_fetch(k, o)
    \/ \E k \in allOtherFiles, stored \in BOOLEAN : install_put(k, stored)
    \/ install_skipWaiting
    \/ install_catch
    \/ activate_event
    \/ activate_keys
    \/ \E n \in GenNames, deleted \in BOOLEAN : activate_delete(n, deleted)
    \/ activate_claim
    \/ activate_catch

SpecLifecycle == InitLifecycle /\ [][NextLifecycle]_vars

\* Every promise settles: no fetch, put or delete stays pending for ever.
SpecLifecycleFair == SpecLifecycle /\ WF_vars(NextLifecycle)

\* A new version takes over and then answers requests: the life cycle as
\* above, and, once the worker is active, fetch events for the requests whose
\* handlers look an entry up in the store by caches.match.
LookupRequests == {r \in Requests : Classify(r) \in {"Static", "Navigation"}}

\* A fetch event is dispatched to the worker once it is active.
FetchEventActive(t, r) ==
    /\ sw.state = "activated"
    /\ FetchEvent(t, r)

NextUpgrade ==
    \/ NextLifecycle
    \/ \E t \in Tasks, r \in LookupRequests : FetchEventActive(t, r)
    \/ \E t \in Tasks : handleStaticRequest_match(t)
    \/ \E t \in Tasks, o \in AllOutcomes : handleStaticRequest_fetch(t, o)
    \/ \E t \in Tasks : handleStaticRequest_put(t)
    \/ \E t \in Tasks, o \in NetOutcomes : handleNavigationRequest_fetch(t, o)
    \/ \E t \in Tasks : handleNavigationRequest_match(t)

SpecUpgrade == InitLifecycle /\ [][NextUpgrade]_vars

\* Scenario D: fetch events for API requests have been dispatched together,
\* one more than the main specification runs at a time, with the store empty;
\* their handlers run concurrently.
RaceTasks == 1..(NumTasks + 1)
ApiRequests == {r \in Requests : Classify(r) = "API"}

InitRace ==
    /\ now = StartTime
    /\ cacheNames = <<>>
    /\ entries = [n \in GenNames |-> EmptyCache]
    /\ \E reqs \in [RaceTasks -> ApiRequests] :
          task = [t \in RaceTasks |->
                    [Started(reqs[t], "API") EXCEPT !.pc = FirstStep("API")]]
    /\ last = IdleTask
    /\ ctl = IdleCtl
    /\ events = NumTasks + 1
    /\ live = NoLive
    /\ sw = ActiveWorker
    /\ posted = <<>>
    /\ page = NewPage
    /\ writtenAt = NoWritten

NextRace ==
    \/ Tick
    \/ \E t \in RaceTasks : handleApiRequest_match(t)
    \/ \E t \in RaceTasks, o \in NetOutcomes : handleApiRequest_fetch(t, o)
    \/ \E t \in RaceTasks : handleApiRequest_put(t)

SpecRace == InitRace /\ [][NextRace]_vars

\* The page's script calling fetchWithCache, one call at a time.
NextPage ==
    \/ PageTick
    \/ \E url \in PageUrls : fetchWithCache_call(url)
    \/ PageTimeout
    \/ \E o \in PageOutcomes, onLine \in BOOLEAN : fetchWithCache_fetch(o, onLine)
    \/ \E onLine \in BOOLEAN : fetchWithCache_json(onLine)

SpecPage == Init /\ [][NextPage]_vars

\* The page's request for the USD rates passing through the worker: the
\* fetch event is dispatched while the page's fetch is pending, the store
\* being empty or filled.
FetchEventForPage(t) ==
    /\ page.call.pc = "fetch"
    /\ page.call.url = <<apiUrl, "USD">>
    /\ page.timer = "armed"
    /\ FetchEvent(t, ReqApiUSD)

InitTimeout == Init \/ InitStored

NextTimeout ==
    \/ \E url \in PageUrls : fetchWithCache_call(url)
    \/ PageTimeout
    \/ \E o \in PageOutcomes, onLine \in BOOLEAN : fetchWithCache_fetch(o, onLine)
    \/ \E onLine \in BOOLEAN : fetchWithCache_json(onLine)
    \/ \E t \in Tasks : FetchEventForPage(t)
    \/ \E t \in Tasks : handleApiRequest_match(t)
    \/ \E t \in Tasks, o \in NetOutcomes : handleApiRequest_fetch(t, o)
    \/ \E t \in Tasks : handleApiRequest_put(t)

SpecTimeout == InitTimeout /\ [][NextTimeout]_vars

\* The page's script saving conversions and clearing the history.
NextHistory ==
    \/ PageTick
    \/ \E c \in Conversions : saveConversion(c)
    \/ clearHistory

SpecHistory == Init /\ [][NextHistory]_vars

\* ------------------------------------------------------------------ claims
\* The claims are stated about `last', the task that completed last: every
\* task passes through it when its handler returns.
Done == last.pc = "done"
LastKey == CacheKey(last.req)

\* The entry the task read for its key carries a timestamp and was older than
\* the expiry window (one day) at the time of the stale check.
SeenExpired ==
    /\ last.seen # NoResponse
    /\ last.seen.date.kind = "iso"
    /\ last.seenAt - last.seen.date.t > API_CACHE_EXPIRY_DAYS

SeenFresh ==
    /\ last.seen # NoResponse
    /\ last.seen.date.kind = "iso"
    /\ last.seenAt - last.seen.date.t <= API_CACHE_EXPIRY_DAYS

\* C1: an API request that found an entry older than the expiry window (one
\* day) and whose network fetch failed is answered with the synthetic 503
\* offline response, not with the expired entry.
C1_ExpiredEntryGivesOffline503 ==
    (Done /\ last.strategy = "API" /\ SeenExpired /\ last.net = "error")
    => last.result = Result("offline503", Offline503)

C1_Witness ==
    /\ Done /\ last.strategy = "API" /\ SeenExpired
    /\ last.net = "error"
    /\ last.result.resp.status = 503
    /\ entries[RUNTIME_CACHE][LastKey] = last.seen

\* C2 (as claimed): an API request whose fetch succeeds with an OK status
\* returns the live network response, and at its return the runtime generation
\* holds for the canonical key the copy of that response stamped with the
\* wall-clock time at which the write was made.
C2_LiveResponseAndStampedEntry ==
    [][\A t \in Tasks :
        /\ (task[t].pc = "api_fetch" /\ task'[t].pc = "idle")
            => last'.net # "ok"
        /\ (task[t].pc = "api_fetch" /\ task'[t].pc = "api_put")
            => /\ task'[t].net = "ok"
               /\ task'[t].putAt = now
        /\ (task[t].pc = "api_put" /\ task'[t].pc = "idle")
            => /\ task[t].networkResponse \in NetResponses
               /\ Ok(task[t].networkResponse)
               /\ last'.result = Result("network", task[t].networkResponse)
               /\ last'.net = "ok"
               /\ RUNTIME_CACHE \in Range(cacheNames')
               /\ entries'[RUNTIME_CACHE][CacheKey(task[t].req)] =
                    Response(task[t].networkResponse.status,
                             task[t].networkResponse.body,
                             toISOString(task[t].putAt))
    ]_vars

\* C3 (as claimed): every entry stored in the runtime generation carries the
\* sw-cached-date timestamp, whichever operation wrote it.
C3_EveryRuntimeEntryStamped ==
    \A k \in Keys :
        entries[RUNTIME_CACHE][k] # NoResponse
        => entries[RUNTIME_CACHE][k].date.kind = "iso"

\* C4 (as claimed): every intercepted GET, of any class and for every network
\* outcome, completes with a response and never with a rejection.
C4_NoInterceptedGetRejected ==
    (Done /\ last.strategy # "none") => last.result.kind # "rejected"

ResponseKinds == {"network", "cached", "offline503", "offlineHtml", "placeholder404"}

\* C4 (amended): an intercepted GET completes with a response (real, cached,
\* the synthetic 503, the synthetic offline page or the 404 image placeholder)
\* except that a network failure is delivered as a rejection for an Other-class
\* request and for a Static-class request that misses the cache and whose
\* destination is not an image; nothing else is ever rejected.
C4_RejectedOnlyOtherOrStaticMiss ==
    (Done /\ last.strategy # "none")
    => /\ last.result.kind \in ResponseKinds \cup {"rejected"}
       /\ last.result.kind = "rejected"
            <=> /\ last.net = "error"
                /\ \/ last.strategy = "Other"
                   \/ /\ last.strategy = "Static"
                      /\ last.fetched
                      /\ last.req.destination # "image"

C4_Witness ==
    /\ Done /\ last.strategy = "Static" /\ last.net = "error"
    /\ last.req.destination # "image"
    /\ last.result.kind = "rejected"

\* C5 (as claimed): a network failure on a request dispatched to the API, Static
\* or Navigation strategy, a Static cache miss and a same-origin full-page
\* load included, is answered with a response and never with a rejection.
C5_FailureRecoveredInStrategy ==
    (Done /\ last.net = "error"
        /\ \/ last.strategy \in {"API", "Static", "Navigation"}
           \/ last.strategy # "none" /\ last.req.mode = "navigate")
    => last.result.kind \in ResponseKinds

\* C6 (as claimed): an entry whose timestamp is missing or unparseable is never
\* returned as the fallback: with the network failing the answer is the 503.
C6_NoTimestampMeansExpired ==
    (Done /\ last.strategy = "API" /\ last.net = "error"
        /\ last.seen # NoResponse
        /\ last.seen.date.kind \in {"null", "text"})
    => last.result = Result("offline503", Offline503)

\* The steps of each strategy's handler.
StepsOf(strategy) ==
    CASE strategy = "API" -> {"api_match", "api_fetch", "api_put"}
      [] strategy = "Static" -> {"static_match", "static_fetch", "static_put"}
      [] strategy = "Navigation" -> {"nav_fetch", "nav_match"}
      [] strategy = "Other" -> {"other_fetch"}
      [] OTHER -> {}

FirstMatch(r, strategy) ==
    LET api == ApiPatternTest(r)
        static == StaticOriginTest(r)
        nav == r.mode = "navigate"
    IN  /\ api => strategy = "API"
        /\ (~api /\ static) => strategy = "Static"
        /\ (~api /\ ~static /\ nav) => strategy = "Navigation"
        /\ (~api /\ ~static /\ ~nav) => strategy = "Other"

\* C7: a GET goes to the strategy of the first test it passes, in the order
\* API pattern, static origin, navigation mode, Other; a request passing both
\* the API pattern and the static-origin test goes to the API strategy; the
\* task runs the steps of that one strategy only.
C7_FirstMatchClassification ==
    /\ \A t \in Tasks :
        task[t].pc # "idle"
        => /\ task[t].req.method = "GET"
           /\ FirstMatch(task[t].req, task[t].strategy)
           /\ task[t].pc \in StepsOf(task[t].strategy)
    /\ (Done /\ last.req.method = "GET") => FirstMatch(last.req, last.strategy)

C7_Witness ==
    /\ Done /\ last.req.method = "GET"
    /\ ApiPatternTest(last.req) /\ StaticOriginTest(last.req)
    /\ last.strategy = "API"
    /\ last.result.kind = "network"

\* C8: a request that is not a GET is not intercepted: no response is produced
\* for it, no task and no strategy is started, no fetch is made, and the step
\* that receives it leaves every generation as it was.
C8_NonGetNotIntercepted ==
    [][/\ \A t \in Tasks : task'[t].pc # "idle" => task'[t].req.method = "GET"
       /\ (last'.pc = "done" /\ last'.req.method # "GET")
            => /\ last'.strategy = "none"
               /\ last'.result = NotIntercepted
               /\ ~last'.fetched
               /\ last' # last => UNCHANGED <<cacheNames, entries, task>>
    ]_vars

C8_Witness ==
    /\ Done /\ last.req.method = "POST"
    /\ last.result = NotIntercepted
    /\ \E k \in Keys : entries[RUNTIME_CACHE][k] # NoResponse

\* C9: the static handler stores the response as received, and a Static
\* request whose URL has a stored response in the static generation is answered
\* with that response, whatever its age, without any network fetch.
C9_StaticServedFromCache ==
    [][\A t \in Tasks :
        /\ (task[t].pc = "static_put" /\ task'[t].pc = "idle")
            => /\ entries'[CACHE_NAME][CacheKey(task[t].req)] = task[t].networkResponse
               /\ last'.result.resp = task[t].networkResponse
        /\ (task[t].pc = "static_match" /\ task'[t].pc # "static_match"
                /\ CACHE_NAME \in Range(cacheNames)
                /\ entries[CACHE_NAME][CacheKey(task[t].req)] # NoResponse)
            => /\ task'[t].pc = "idle"
               /\ last'.req = task[t].req
               /\ last'.result =
                    Result("cached", entries[CACHE_NAME][CacheKey(task[t].req)])
               /\ ~last'.fetched
    ]_vars

C9_Witness ==
    /\ Done /\ last.strategy = "Static"
    /\ last.result.kind = "cached"
    /\ ~last.fetched
    /\ last.result.resp = entries[CACHE_NAME][LastKey]
    /\ last.result.resp.body \in {"B1", "B2"}

\* C10: an API request that found no entry and whose fetch returned an OK
\* response returns that response as received; a later request for the same
\* key that reads the entry then written within the expiry window and whose
\* fetch fails returns a response with the same body.
C10_ApiRoundTrip ==
    /\ (Done /\ last.strategy = "API" /\ last.net = "ok" /\ last.seen = NoResponse)
        => /\ last.result.kind = "network"
           /\ last.result.resp \in NetResponses
           /\ Ok(last.result.resp)
    /\ (Done /\ last.strategy = "API" /\ last.net = "error"
            /\ last.seenLive # "" /\ SeenFresh)
        => /\ last.result.kind = "cached"
           /\ last.result.resp.body = last.seenLive
           /\ last.result.resp.status = 200

C10_Witness ==
    /\ Done /\ last.strategy = "API" /\ last.net = "error"
    /\ last.seenLive = "B2" /\ SeenFresh
    /\ last.seenAt > last.seen.date.t
    /\ last.result.kind = "cached"
    /\ last.result.resp.body = "B2"

\* The payload of a response: its status and body.
Payload(resp) == <<resp.status, resp.body>>

\* C11: requests for the same API key that run concurrently, all missing the
\* cache and fetching OK responses: every write replaces the entry for the key
\* by the whole stamped copy of the writer's response, so that the entry
\* stored once all tasks have finished is the payload of the write made last,
\* one whole payload of the network, never a mixture and never absent.
C11_LastWriterWins ==
    /\ \A k \in Keys :
          entries[RUNTIME_CACHE][k] # NoResponse
          => /\ \E r \in NetResponses :
                  Ok(r) /\ Payload(entries[RUNTIME_CACHE][k]) = Payload(r)
             /\ entries[RUNTIME_CACHE][k].date.kind = "iso"
    /\ (Done /\ last.strategy = "API" /\ last.net = "ok")
        => /\ RUNTIME_CACHE \in Range(cacheNames)
           /\ Payload(entries[RUNTIME_CACHE][LastKey]) = Payload(last.result.resp)

C11_Witness ==
    /\ \A t \in DOMAIN task : task[t].pc = "idle"
    /\ Done /\ last.strategy = "API" /\ last.net = "ok"
    /\ last.seen = NoResponse
    /\ last.replaced # NoResponse
    /\ Payload(last.replaced) # Payload(last.result.resp)
    /\ Payload(entries[RUNTIME_CACHE][LastKey]) = Payload(last.result.resp)

\* C12: a Navigation request whose fetch fails or is not OK is answered with
\* the cached root document as stored when caches.match('/') finds one (seen is
\* what it found), and with the synthesized offline page, status 200, only
\* when it finds none; a Navigation request is never rejected.
C12_NavigationFallsBackToRoot ==
    (Done /\ last.strategy = "Navigation")
    => /\ last.result.kind # "rejected"
       /\ last.net = "ok" <=> last.result.kind = "network"
       /\ (last.net \in {"error", "nonok"} /\ last.seen # NoResponse)
            => last.result = Result("cached", last.seen)
       /\ (last.net \in {"error", "nonok"} /\ last.seen = NoResponse)
            => /\ last.result = Result("offlineHtml", OfflineHtml)
               /\ last.result.resp.status = 200

C12_Witness ==
    /\ Done /\ last.strategy = "Navigation" /\ last.net = "error"
    /\ last.seen # NoResponse
    /\ last.seen = entries[CACHE_NAME][RootKey]
    /\ last.result = Result("cached", last.seen)
    /\ last.result.resp # OfflineHtml

\* The files of coreFiles that cache.addAll could not fetch (no answer, or an
\* answer that is not OK).
CoreFailures ==
    {k \in coreFiles : sw.core[k] = NetError
                        \/ (sw.core[k] # NoResponse /\ ~Ok(sw.core[k]))}
CoreFetched == \A k \in coreFiles : sw.core[k] \in NetResponses /\ Ok(sw.core[k])

\* C13: when a file of the core manifest cannot be fetched the installation
\* fails: no core file of the attempt is stored, skipWaiting is not called and
\* the worker is never installed (waiting), activating or active.
C13_CoreFailureAbortsInstall ==
    CoreFailures # {}
    => /\ sw.state \in {"installing", "redundant"}
       /\ ~sw.skipWaiting
       /\ ~sw.claimed
       /\ \A k \in coreFiles : entries[CACHE_NAME][k] = NoResponse

C13_Witness ==
    /\ sw.state = "redundant"
    /\ Cardinality(CoreFailures) = 1
    /\ CACHE_NAME \in Range(cacheNames)
    /\ \A k \in coreFiles : entries[CACHE_NAME][k] = NoResponse

\* C14: once every core file is fetched and stored, the fetch of every
\* best-effort resource is attempted, none of their failures (network error,
\* status not OK, failed put) fails the installation, and the installation
\* completes: skipWaiting is called and the worker is installed.
C14_BestEffortNeverFailsInstall ==
    /\ [](CoreFetched
            => /\ sw.state # "redundant"
               /\ \A k \in coreFiles : entries[CACHE_NAME][k] = sw.core[k]
               /\ \A k \in allOtherFiles :
                    sw.best[k].at \in {"fetching", "putting"} \cup Settled)
    /\ CoreFetched ~> (sw.state # "installing" /\ sw.skipWaiting)

C14_Witness ==
    /\ sw.state = "installed" /\ sw.skipWaiting
    /\ CoreFetched
    /\ sw.best[CacheKey(ReqIcon)].at = "failed"
    /\ sw.best[CacheKey(ReqCdn)].at = "putFailed"
    /\ entries[CACHE_NAME][CacheKey(ReqCdn)] = NoResponse

\* C15 (as claimed): the worker that is active after a deletion of an old
\* generation failed has claimed its clients.
C15_DeleteFailureStillClaims ==
    (sw.state = "activated" /\ sw.deleteFailed # {}) => sw.claimed

\* C16: the activate handler calls caches.delete for every existing generation
\* whose name is neither CACHE_NAME nor RUNTIME_CACHE; the clients are claimed
\* only when all those deletions have settled; and when none of them failed
\* the generations existing after activation are among CACHE_NAME and
\* RUNTIME_CACHE.
C16_OldGenerationsDeletedBeforeClaim ==
    /\ (sw.state \in {"activating", "activated"} /\ sw.pc # "act_keys")
        => \A n \in Range(cacheNames) :
              n \notin {CACHE_NAME, RUNTIME_CACHE}
              => n \in sw.pending \cup sw.deleteFailed
    /\ sw.claimed
        => /\ sw.pending = {}
           /\ Range(cacheNames) \subseteq {CACHE_NAME, RUNTIME_CACHE}
    /\ (sw.state = "activated" /\ sw.deleteFailed = {})
        => Range(cacheNames) \subseteq {CACHE_NAME, RUNTIME_CACHE}

C16_Witness ==
    /\ sw.state = "activated" /\ sw.claimed
    /\ {OLD_CACHE, OLD_RUNTIME} \subseteq Range(sw.names)
    /\ Range(cacheNames) = {CACHE_NAME, RUNTIME_CACHE}
    /\ entries[OLD_CACHE] = EmptyCache

NoEntries == \A n \in GenNames : entries[n] = EmptyCache

C19_SyncRefreshesSilently ==
    [][/\ ctl'.pc # "rejected"
       /\ (ctl'.tag # "" /\ ctl' # ctl /\ ctl.pc \in {"idle", "done"})
            => /\ ctl'.op = (IF ctl'.tag = "background-sync-currency-rates"
                             THEN "sync" ELSE "none")
               /\ ctl'.op = "none" => ctl'.pc = "done"
               /\ UNCHANGED <<cacheNames, entries, posted>>
       /\ (ctl.op = "sync" /\ ctl' # ctl /\ ctl.pc = "sync_fetch")
            => /\ ctl'.pc \in {"sync_put", "done"}
               /\ UNCHANGED <<cacheNames, entries, posted>>
       /\ (ctl.op = "sync" /\ ctl' # ctl /\ ctl.pc = "sync_put")
            => /\ ctl'.pc = "done"
               /\ Ok(ctl.response)
               /\ entries' = [entries EXCEPT ![RUNTIME_CACHE][SyncKey] = ctl.response]
               /\ posted' = posted
    ]_vars

C19_Witness ==
    /\ ctl.op = "sync" /\ ctl.pc = "done"
    /\ ctl.tag = "background-sync-currency-rates"
    /\ entries[RUNTIME_CACHE][SyncKey] = Response(200, "B2", BadDate)
    /\ entries[CACHE_NAME] = StoredEntries[CACHE_NAME]
    /\ posted = <<>>
    /\ events = 1

\* C20: an Other request is answered by the network alone: the answer of the
\* fetch is returned as received, a failed fetch is delivered as a rejection,
\* the handler has no step that reads or writes the store and its one step
\* leaves every generation as it was.
C20_OtherIsNetworkOnly ==
    [][\A t \in Tasks :
        /\ (task'[t].pc # "idle" /\ task'[t].strategy = "Other")
            => task'[t].pc = "other_fetch"
        /\ (task[t].pc = "other_fetch" /\ task'[t] # task[t])
            => /\ UNCHANGED <<cacheNames, entries>>
               /\ last'.req = task[t].req
               /\ last'.strategy = "Other"
               /\ \/ /\ last'.net = "error"
                     /\ last'.result = Rejected
                  \/ /\ last'.net \in {"ok", "nonok"}
                     /\ last'.result.kind = "network"
                     /\ last'.result.resp \in NetResponses
                     /\ NetClass(last'.result.resp) = last'.net
    ]_vars

C20_Witness ==
    /\ Done /\ last.strategy = "Other" /\ last.net = "error"
    /\ last.result = Rejected
    /\ entries[RUNTIME_CACHE][CacheKey(ReqApiUSD)] # NoResponse
    /\ entries[RUNTIME_CACHE][LastKey] = NoResponse

\* C21: an installation attempt that fails on the core manifest leaves the
\* store to the version that is active: none of its steps deletes a generation
\* or removes or overwrites an entry, and it starts no best-effort fetch; the
\* worker of the attempt ends redundant.
C21_FailedInstallLeavesStore ==
    [][/\ (sw.state = "installing" /\ sw.pc = "inst_open" /\ sw' # sw)
            => /\ entries' = entries
               /\ Range(cacheNames) \subseteq Range(cacheNames')
       /\ (sw.state = "installing" /\ sw' # sw /\ CoreFailures' # {})
            => /\ entries' = entries
               /\ cacheNames' = cacheNames
               /\ sw'.best = NoBest
               /\ sw'.state \in {"installing", "redundant"}
    ]_vars

C21_Witness ==
    /\ sw.state = "redundant"
    /\ CoreFailures # {}
    /\ sw.best = NoBest
    /\ cacheNames = <<OLD_CACHE, OLD_RUNTIME, CACHE_NAME>>
    /\ entries = OldEntries(<<OLD_CACHE, OLD_RUNTIME>>)

\* The step of the page is the start of a call of fetchWithCache.
CallStep == page.call.pc = "idle" /\ page'.clock = page.clock /\ page' # page

\* The call that starts holds an entry for its URL younger than the timeout
\* (5 minutes).
HoldsYoung(url) ==
    /\ page.cache[url] # NoEntry
    /\ page.clock - page.cache[url].timestamp < cacheTimeout

\* What the three steps of fetchWithCache do, given which data may be stored.
FetchWithCacheSteps(Allowed(_)) ==
    /\ CallStep
        => /\ page'.cache = page.cache
           /\ IF page'.call.pc = "idle"
              THEN /\ page'.ret.kind = "cached"
                   /\ ~page'.ret.fetched
                   /\ HoldsYoung(page'.ret.url)
                   /\ page'.ret.data = page.cache[page'.ret.url].data
              ELSE /\ page'.call.pc = "fetch"
                   /\ ~HoldsYoung(page'.call.url)
    /\ (page.call.pc = "fetch" /\ page'.clock = page.clock /\ page' # page)
        => /\ page'.cache = page.cache
           /\ page'.ret.kind \in {"none", "thrown"}
    /\ (page.call.pc = "json" /\ page'.clock = page.clock /\ page' # page)
        => /\ page'.ret.fetched
           /\ page'.ret.kind \in {"network", "thrown"}
           /\ page'.ret.kind = "thrown" => page'.cache = page.cache
           /\ page'.ret.kind = "network"
                => /\ page.call.body.parse = "object"
                   /\ Allowed(page.call.body.data)
                   /\ page'.ret.data = page.call.body.data
                   /\ page'.cache =
                        [page.cache EXCEPT ![page.call.url] =
                            CacheEntry(page.call.body.data, page.clock)]
           /\ ~(page.call.body.parse = "object" /\ Allowed(page.call.body.data))
                => page'.cache = page.cache

NoErrorField(data) == data.error = Undefined
NoErrorRaised(data) == data.error \in {Undefined, "null", "false", "0", "''"}

C23_HistoryAtMostTenNewestFirst ==
    /\ [](/\ Len(page.recentConversions) <= 10
          /\ \A i, j \in 1..Len(page.recentConversions) :
                i < j => page.recentConversions[i].id >= page.recentConversions[j].id
          /\ page.called = "clearHistory" => page.recentConversions = <<>>)
    /\ [][(page'.called = "saveConversion" /\ page' # page
                /\ page'.clock = page.clock)
            => /\ Len(page'.recentConversions) =
                    (IF Len(page.recentConversions) < 10
                     THEN Len(page.recentConversions) + 1 ELSE 10)
               /\ page'.recentConversions[1].id = page.clock
               /\ \A i \in 2..Len(page'.recentConversions) :
                    page'.recentConversions[i] = page.recentConversions[i - 1]
          ]_vars

C23_Witness ==
    /\ page.called = "saveConversion" /\ page.sliced
    /\ Len(page.recentConversions) = 10
    /\ page.recentConversions[1].id = page.clock
    /\ page.recentConversions[10].id < page.recentConversions[9].id
    /\ page.recentConversions[10].id > 0

\* C24: an API request whose fetch fails and one whose fetch returns a status
\* that is not OK are answered alike: with the entry read for the key before
\* the fetch when the stale check did not mark it expired, else with the
\* synthetic 503; a response that is not OK is never returned as the live
\* answer and never stored in the runtime generation.
C24_NonOkHandledAsFailure ==
    /\ (Done /\ last.strategy = "API" /\ last.net \in {"error", "nonok"})
        => last.result =
              (IF last.seen # NoResponse /\ ~IsExpired(last.seen, last.seenAt)
               THEN Result("cached", last.seen)
               ELSE Result("offline503", Offline503))
    /\ (Done /\ last.strategy = "API" /\ last.result.kind = "network")
        => /\ last.net = "ok"
           /\ last.result.resp.status \in 200..299
    /\ \A k \in Keys :
          entries[RUNTIME_CACHE][k] # NoResponse
          => entries[RUNTIME_CACHE][k].status \in 200..299

C24_Witness ==
    /\ Done /\ last.strategy = "API" /\ last.net = "nonok"
    /\ last.seen # NoResponse
    /\ last.seen.date = toISOString(last.seenAt)
    /\ last.result = Result("cached", last.seen)
    /\ entries[RUNTIME_CACHE][LastKey] = last.seen

\* The synthetic answer, field by field.
Synthetic503 ==
    [status |-> 503,
     body |-> "{\"error\":\"Offline\",\"message\":\"No internet connection and no cached data available\"}",
     date |-> NoHeader,
     contentType |-> "application/json",
     cacheControl |-> "no-cache"]

\* C25 (as claimed): every API request completes with a response, never with
\* a rejection; when its fetch fails and it read no usable entry (none, or one
\* that is not both stamped and within the expiry window), the response is the
\* synthetic one: status 503, Content-Type application/json, Cache-Control
\* no-cache and the offline body.
C25_RespondsAndOffline503WithoutFallback ==
    (Done /\ last.strategy = "API")
    => /\ last.result.kind \in {"network", "cached", "offline503"}
       /\ (last.net = "error" /\ ~SeenFresh) => last.result.resp = Synthetic503

\* C27 (as claimed): whenever an API request is answered with a cached entry
\* as its fallback, that entry was stored no more than the expiry window (one
\* day) before the moment the answer is returned, whatever else runs
\* concurrently.
C27_FallbackStoredWithinWindow ==
    [][\A t \in Tasks :
        (task[t].pc = "api_fetch" /\ task'[t].pc = "idle"
            /\ last'.result.kind = "cached")
        => now - task[t].seenWritten <= API_CACHE_EXPIRY_DAYS
    ]_vars

\* C26: an entry the stale check finds expired is only disregarded: neither
\* the step that reads it nor the step in which the fetch then fails changes
\* any entry, so the runtime generation still holds that entry, unchanged,
\* when the handler returns (its answer then being the synthetic 503).
C26_ExpiredEntryKept ==
    [][\A t \in Tasks :
        /\ (task[t].pc = "api_match" /\ task'[t].pc = "api_fetch")
            => /\ entries' = entries
               /\ task'[t].seen = entries[RUNTIME_CACHE][CacheKey(task[t].req)]
        /\ (task[t].pc = "api_fetch" /\ task'[t].pc = "idle")
            => /\ last'.net \in {"error", "nonok"}
               /\ entries' = entries
               /\ cacheNames' = cacheNames
               /\ (task[t].seen # NoResponse /\ IsExpired(task[t].seen, task[t].seenAt))
                    => last'.result = Result("offline503", Offline503)
    ]_vars

C26_Witness ==
    /\ Done /\ last.strategy = "API" /\ last.net = "error"
    /\ last.seen # NoResponse
    /\ last.seen.date.kind = "null"
    /\ IsExpired(last.seen, last.seenAt)
    /\ last.result.kind = "offline503"
    /\ RUNTIME_CACHE \in Range(cacheNames)
    /\ entries[RUNTIME_CACHE][LastKey] = last.seen

StaticMissStep(otherCase) ==
    \A t \in Tasks :
        /\ (task[t].pc = "static_fetch" /\ task'[t].pc # "static_fetch")
            => \/ task'[t].pc = "static_put"
               \/ /\ task'[t].pc = "idle"
                  /\ last'.net = "error"
                  /\ entries' = entries
                  /\ last'.result =
                        IF task[t].req.destination = "image"
                        THEN Result("placeholder404", Placeholder404)
                        ELSE Rejected
               \/ /\ task'[t].pc = "idle"
                  /\ otherCase
                  /\ entries' = entries
        /\ (task[t].pc = "static_put" /\ task'[t].pc = "idle")
            => /\ Ok(task[t].networkResponse)
               /\ CACHE_NAME \in Range(cacheNames')
               /\ entries'[CACHE_NAME][CacheKey(task[t].req)] = task[t].networkResponse
               /\ last'.result = Result("network", task[t].networkResponse)

NotOkReturned ==
    /\ last'.net = "nonok"
    /\ last'.result.kind = "network"
    /\ last'.result.resp \in NetResponses \cup {Opaque}
    /\ ~Ok(last'.result.resp)

\* C28 as stated: a Static request that misses the cache ends in one of three
\* ways: the fetched response is written into the static generation and
\* returned, or the fetch fails and an image gets the 404 placeholder, or the
\* fetch fails and the failure is propagated.
C28_StaticMissThreeWays == [][StaticMissStep(FALSE)]_vars

\* C28, amended: a Static request that misses the cache ends in one of four
\* ways: an OK response is written into the static generation and returned; a
\* response that is not OK (an opaque one included) is returned as received and
\* nothing is written; a failed fetch gives an image the 404 placeholder; a
\* failed fetch for any other destination is propagated.
C28_StaticMissFourWays == [][StaticMissStep(NotOkReturned)]_vars

C28_Witness ==
    /\ Done /\ last.strategy = "Static" /\ last.fetched
    /\ last.net = "nonok"
    /\ last.result = Result("network", Opaque)
    /\ \A n \in GenNames : entries[n][LastKey] = NoResponse

\* The generation whose entry caches.match returns for the key.
ServingGeneration(names, ents, key) ==
    names[CHOOSE i \in 1..Len(names) :
            /\ ents[names[i]][key] # NoResponse
            /\ \A j \in 1..Len(names) : ents[names[j]][key] # NoResponse => i <= j]

\* C29: whenever handleStaticRequest returns a stored entry for its request,
\* or handleNavigationRequest the stored root document, the generation that
\* entry is taken from is the current static or the current runtime
\* generation, never one of an earlier version.
C29_ServedFromCurrentGeneration ==
    [][\A t \in Tasks :
        /\ (task[t].pc = "static_match" /\ task'[t].pc = "idle"
                /\ last'.result.kind = "cached")
            => ~Condemned(ServingGeneration(cacheNames, entries, CacheKey(task[t].req)))
        /\ (task[t].pc = "nav_match" /\ task'[t].pc = "idle"
                /\ last'.result.kind = "cached")
            => ~Condemned(ServingGeneration(cacheNames, entries, RootKey))
    ]_vars

\* C30: skipWaiting is signalled only once every core file is stored and
\* every best-effort attempt has settled; an install step that has come that
\* far does signal it, and the worker that has signalled it goes on to be
\* activated and active, nothing else being waited for.
C30_SkipWaitingAfterInstallThenActive ==
    /\ [](sw.skipWaiting
            => /\ CoreFetched
               /\ \A k \in coreFiles : entries[CACHE_NAME][k] = sw.core[k]
               /\ \A k \in allOtherFiles : sw.best[k].at \in Settled)
    /\ [][(~sw.skipWaiting /\ sw'.skipWaiting)
            => /\ sw.state = "installing"
               /\ sw'.state = "installed"]_vars
    /\ []((sw.state = "installed" /\ sw.skipWaiting) => ENABLED activate_event)
    /\ (sw.state = "installing" /\ sw.pc = "inst_best"
            /\ \A k \in allOtherFiles : sw.best[k].at \in Settled)
        ~> sw.skipWaiting
    /\ sw.skipWaiting ~> (sw.state = "activated")

C30_Witness ==
    /\ sw.state = "activated" /\ sw.skipWaiting /\ sw.claimed
    /\ CoreFetched
    /\ \A k \in allOtherFiles :
          /\ sw.best[k].at = "stored"
          /\ entries[CACHE_NAME][k] # NoResponse
    /\ cacheNames = <<CACHE_NAME>>

C32_EntryLeavesOnlyWithGenerationOrOverwrite ==
    [][\A n \in GenNames, k \in Keys :
        (entries[n][k] # NoResponse /\ entries'[n][k] # entries[n][k])
        => \/ /\ n \in Range(cacheNames)
              /\ n \notin Range(cacheNames')
              /\ entries'[n] = EmptyCache
              /\ \/ ctl.pc \in {"upd_delete", "clr_delete"}
                 \/ sw.pc \in {"act_delete", "act_caught"}
           \/ /\ n \in Range(cacheNames')
              /\ entries'[n][k] # NoResponse
              /\ \A k2 \in Keys \ {k} : entries'[n][k2] = entries[n][k2]
    ]_vars

C32_Witness ==
    /\ ctl.op = "update" /\ ctl.pc = "sync_fetch"
    /\ RUNTIME_CACHE \notin Range(cacheNames)
    /\ entries[RUNTIME_CACHE] = EmptyCache
    /\ entries[CACHE_NAME] = StoredEntries[CACHE_NAME]
    /\ \A t \in Tasks : task[t].pc = "idle"
    /\ events = 1

\* C33: an API task that read an entry within its expiry window, whose
\* runtime generation was deleted afterwards (by updateCache or clearCache)
\* and whose fetch then fails or is not OK, returns the entry it read; the
\* return puts nothing back into the store.
C33_ReadSurvivesGenerationDelete ==
    [][\A t \in Tasks :
        (/\ task[t].pc = "api_fetch" /\ task'[t].pc = "idle"
         /\ last'.net \in {"error", "nonok"}
         /\ task[t].cache = "doomed"
         /\ task[t].seen # NoResponse
         /\ task[t].seen.date.kind = "iso"
         /\ task[t].seenAt - task[t].seen.date.t <= API_CACHE_EXPIRY_DAYS)
        => /\ last'.result = Result("cached", task[t].seen)
           /\ entries' = entries
           /\ cacheNames' = cacheNames
    ]_vars

C33_Witness ==
    /\ Done /\ last.strategy = "API" /\ last.net = "error"
    /\ last.cache = "doomed"
    /\ SeenFresh
    /\ last.result = Result("cached", last.seen)
    /\ last.replaced = NoResponse
    /\ entries[RUNTIME_CACHE] = EmptyCache
    /\ ctl.op = "clear"

\* C34: an API task whose request the page's timeout has aborted while its
\* fetch was pending ends in the catch block, as after a network error: it
\* returns the entry it kept from its read (the one read within the expiry
\* window, when there was one) or else the synthetic 503, and writes nothing.
\* On the page, the timer is pending only while fetch(url) is, and a fetch
\* the timeout aborted is reported as a request timeout.
C34_TimeoutTakesFailureBranch ==
    /\ [][\A t \in Tasks :
            (task[t].pc = "api_fetch" /\ task[t].signal = "aborted"
                /\ task'[t].pc # "api_fetch")
            => /\ task'[t].pc = "idle"
               /\ last'.net = "error"
               /\ last'.result =
                    IF task[t].cachedResponse # NoResponse
                    THEN Result("cached", task[t].cachedResponse)
                    ELSE Result("offline503", Offline503)
               /\ (task[t].seen = NoResponse)
                    => last'.result = Result("offline503", Offline503)
               /\ (task[t].seen # NoResponse /\ task[t].seen.date.kind = "iso"
                        /\ task[t].seenAt - task[t].seen.date.t <= API_CACHE_EXPIRY_DAYS)
                    => last'.result = Result("cached", task[t].seen)
               /\ entries' = entries
       ]_vars
    /\ [][(page.call.pc = "fetch" /\ page'.call.pc # "fetch")
            => /\ page'.timer = "cleared"
               /\ page.timer = "fired"
                    => /\ page'.ret.kind = "thrown"
                       /\ page'.ret.error = "Request timeout. Please try again."
               /\ page'.ret.error = "Request timeout. Please try again."
                    => page.timer = "fired"
       ]_vars
    /\ [](page.timer \in {"armed", "fired"} => page.call.pc = "fetch")

C34_Witness ==
    /\ Done /\ last.strategy = "API" /\ last.signal = "aborted"
    /\ last.net = "error"
    /\ SeenFresh
    /\ last.result = Result("cached", last.seen)
    /\ page.ret.kind = "thrown"
    /\ page.ret.error = "Request timeout. Please try again."
    /\ page.timer = "cleared"

C36_OnlyOkResponsesWritten ==
    /\ [](\A n \in GenNames, k \in Keys :
            entries[n][k] # NoResponse => entries[n][k].status \in 200..299)
    /\ [][/\ \A t \in Tasks :
                /\ task'[t].pc \in {"api_put", "static_put"} /\ task[t].pc # task'[t].pc
                    => task'[t].networkResponse.status \in 200..299
                /\ (task[t].pc = "static_fetch" /\ task'[t].pc = "idle"
                        /\ last'.net = "nonok")
                    => /\ last'.result.kind = "network"
                       /\ last'.result.resp.status \notin 200..299
                       /\ last'.result.resp # NetError
                       /\ entries' = entries
          /\ (ctl'.pc = "sync_put" /\ ctl.pc # "sync_put")
                => ctl'.response.status \in 200..299
       ]_vars

C36_Witness ==
    /\ Done /\ last.strategy = "Static" /\ last.net = "nonok"
    /\ last.result.resp = Response(500, "ERR", NoHeader)
    /\ \A n \in GenNames : entries[n][LastKey] = NoResponse
    /\ \E k \in Keys : entries[RUNTIME_CACHE][k] # NoResponse

\* The key is a URL the API pattern matches: the text of the endpoint stands
\* in its origin and path or in its query.
KeyMatchesApiPattern(k) ==
    \/ PatternAt(k.origin, k.path)
    \/ PatternAt(k.search.origin, k.search.path)

\* C37: handleApiRequest and syncCurrencyRates change the runtime generation
\* alone, handleStaticRequest and the install step the static generation
\* alone, handleNavigationRequest and handleNetworkRequest none; and every key
\* of the runtime generation is a URL that matches the API endpoint pattern.
C37_WritersKeptApart ==
    /\ [][/\ \A t \in Tasks :
                /\ task[t].pc \in {"api_match", "api_fetch", "api_put"}
                        /\ task'[t].pc # task[t].pc
                    => \A n \in GenNames \ {RUNTIME_CACHE} : entries'[n] = entries[n]
                /\ task[t].pc \in {"static_match", "static_fetch", "static_put"}
                        /\ task'[t].pc # task[t].pc
                    => \A n \in GenNames \ {CACHE_NAME} : entries'[n] = entries[n]
                /\ task[t].pc \in {"nav_fetch", "nav_match", "other_fetch"}
                        /\ task'[t].pc # task[t].pc
                    => entries' = entries
          /\ (ctl.pc \in {"sync_fetch", "sync_put"} /\ ctl' # ctl)
                => \A n \in GenNames \ {RUNTIME_CACHE} : entries'[n] = entries[n]
          /\ (sw.state = "installing" /\ sw' # sw)
                => \A n \in GenNames \ {CACHE_NAME} : entries'[n] = entries[n]
       ]_vars
    /\ [](\A k \in Keys :
            entries[RUNTIME_CACHE][k] # NoResponse => KeyMatchesApiPattern(k))

\* C38: no step of the activate handler changes the current static or the
\* current runtime generation or removes either from the list of names: the
\* worker that is active still has the core files as installed and the
\* runtime entry there was before, whichever other generations existed.
C38_ActivationSparesCurrentGenerations ==
    /\ [][(sw.state \in {"installed", "activating", "activated"} /\ sw' # sw)
            => /\ entries'[CACHE_NAME] = entries[CACHE_NAME]
               /\ entries'[RUNTIME_CACHE] = entries[RUNTIME_CACHE]
               /\ \A n \in {CACHE_NAME, RUNTIME_CACHE} :
                    n \in Range(cacheNames) => n \in Range(cacheNames')
               /\ sw'.pending \cap {CACHE_NAME, RUNTIME_CACHE} = {}
       ]_vars
    /\ [](sw.state = "activated"
            => /\ CACHE_NAME \in Range(cacheNames)
               /\ \A k \in coreFiles : entries[CACHE_NAME][k] = sw.core[k]
               /\ RUNTIME_CACHE \in Range(sw.names)
                    => /\ RUNTIME_CACHE \in Range(cacheNames)
                       /\ entries[RUNTIME_CACHE] = OldEntries(<<RUNTIME_CACHE>>)[RUNTIME_CACHE])

C38_Witness ==
    /\ sw.state = "activated" /\ sw.pc = "done"
    /\ sw.names = <<RUNTIME_CACHE, OLD_CACHE, OLD_RUNTIME, CACHE_NAME>>
    /\ cacheNames = <<RUNTIME_CACHE, CACHE_NAME>>
    /\ entries[RUNTIME_CACHE][SyncKey] = Response(200, "B2", toISOString(StartTime - 1))
    /\ \A k \in coreFiles : entries[CACHE_NAME][k] = sw.core[k]
    /\ entries[OLD_CACHE] = EmptyCache

\* C39: a message that carries no data, or whose type is neither CACHE_UPDATE
\* nor CLEAR_CACHE, starts nothing: the step that takes it deletes no
\* generation, writes no entry and posts nothing, and leaves no step of a
\* control flow (delete, fetch, notification) to follow.
C39_OtherMessagesIgnored ==
    /\ [][(events' = events + 1 /\ task' = task /\ last' = last
                /\ ctl'.type \notin {"", "CACHE_UPDATE", "CLEAR_CACHE"})
            => /\ ctl'.op = "none"
               /\ ctl'.pc = "done"
               /\ UNCHANGED <<cacheNames, entries, posted>>
       ]_vars
    /\ [](ctl.type \notin {"", "CACHE_UPDATE", "CLEAR_CACHE"}
            => ctl.op = "none" /\ ctl.pc = "done")

C39_Witness ==
    /\ ctl.type = "PING" /\ ctl.pc = "done" /\ ctl.op = "none"
    /\ events = 1
    /\ entries = StoredEntries
    /\ cacheNames = <<CACHE_NAME, RUNTIME_CACHE>>
    /\ posted = <<>>

\* C40: a best-effort resource is fetched, and the static generation holds an
\* entry for it, only when every core file has been fetched with an OK
\* response and stored; the step in which the core batch settles is the one
\* that starts the best-effort fetches.
C40_BestEffortAfterCoreStored ==
    /\ [](\A k \in allOtherFiles :
            (sw.best[k].at # "none" \/ entries[CACHE_NAME][k] # NoResponse)
            => /\ \A c \in coreFiles :
                    /\ sw.core[c] # NoResponse
                    /\ sw.core[c].status \in 200..299
                    /\ entries[CACHE_NAME][c] = sw.core[c]
               /\ sw.pc # "inst_rejected")
    /\ [][\A k \in allOtherFiles :
            (sw.best[k].at = "none" /\ sw'.best[k].at # "none")
            => /\ sw.pc = "inst_addAll"
               /\ sw'.pc = "inst_best"
               /\ sw'.best[k].at = "fetching"
       ]_vars

C40_Witness ==
    /\ sw.state = "installing" /\ sw.pc = "inst_best"
    /\ sw.best[CacheKey(ReqIcon)].at = "stored"
    /\ entries[CACHE_NAME][CacheKey(ReqIcon)] # NoResponse
    /\ sw.best[CacheKey(ReqCdn)].at = "fetching"
    /\ \A c \in coreFiles : entries[CACHE_NAME][c] = Response(200, "B1", NoHeader)

====
